---- MODULE Spec2Model ----
(***************************************************************************)
(* A model of the bytecode-driven value-witness interpreter of             *)
(* stdlib/public/runtime/BytecodeLayouts.cpp.                              *)
(*                                                                         *)
(* The layout string and the value storage are byte arrays; every          *)
(* multi-byte quantity is a little-endian tuple of bytes, so that 64-bit   *)
(* and 32-bit arithmetic keeps its width (all arithmetic on such tuples is *)
(* modulo 2^(8*width)).  A handler of the source is an operator from a     *)
(* "world" record (reader position, addrOffset, memory, reference counts,  *)
(* collaborator-call log) to the world after the handler has run.          *)
(***************************************************************************)
EXTENDS Integers, Sequences, FiniteSets, TLC

VARIABLES
    layoutStr,  \* the layout string attached to the metadata (bytes)
    meta,       \* the metadata record: size, witness-table flags
    mem,        \* value storage: address -> byte
    rc,         \* reference count of every heap object
    args,       \* the arguments of the entry point: dest, src, tag
    ghost,      \* what the inputs mean: live references, state before the call
    pc,         \* "ready" -> (entry point runs) -> "done"
    out         \* what the entry point did: final cursor, calls, writes, result

vars == <<layoutStr, meta, mem, rc, args, ghost, pc, out>>

---------------------------------------------------------------------------
(* Bytes and little-endian words                                           *)

Byte == 0..255

RECURSIVE BitAnd(_, _)
BitAnd(a, b) ==
    IF a = 0 \/ b = 0 THEN 0
    ELSE ((a % 2) * (b % 2)) + 2 * BitAnd(a \div 2, b \div 2)

RECURSIVE BitOr(_, _)
BitOr(a, b) ==
    IF a = 0 THEN b
    ELSE IF b = 0 THEN a
    ELSE (IF (a % 2) + (b % 2) > 0 THEN 1 ELSE 0) + 2 * BitOr(a \div 2, b \div 2)

\* n (0 <= n < 2^31) as a little-endian word of w bytes (truncating).
U(n, w) ==
    [i \in 1..w |->
        IF i = 1 THEN n % 256
        ELSE IF i = 2 THEN (n \div 256) % 256
        ELSE IF i = 3 THEN (n \div 65536) % 256
        ELSE IF i = 4 THEN (n \div 16777216) % 256
        ELSE 0]

\* A value no size, offset or address of the model reaches.
Huge == 2^24

\* The number a word holds, when it is below 2^24; Huge otherwise.
N(bs0) ==
    CHOOSE result \in {(
    IF \E i \in 4..Len(bs) : bs[i] # 0 THEN Huge
    ELSE (IF Len(bs) >= 1 THEN bs[1] ELSE 0)
       + (IF Len(bs) >= 2 THEN 256 * bs[2] ELSE 0)
       + (IF Len(bs) >= 3 THEN 65536 * bs[3] ELSE 0)
      ) : bs \in {bs0}} : TRUE


\* Integer conversion: zero-extend or truncate to w bytes.
Cast(bs, w) == [i \in 1..w |-> IF i <= Len(bs) THEN bs[i] ELSE 0]

IsZero(bs) == \A i \in 1..Len(bs) : bs[i] = 0

AndW(a, b) == [i \in 1..Len(a) |-> BitAnd(a[i], b[i])]
OrW(a, b) == [i \in 1..Len(a) |-> BitOr(a[i], b[i])]
NotW(a) == [i \in 1..Len(a) |-> 255 - a[i]]

\* Unsigned a < b for words of equal length.
RECURSIVE LtAt(_, _, _)
LtAt(a, b, i) ==
    IF i = 0 THEN FALSE
    ELSE IF a[i] # b[i] THEN a[i] < b[i]
    ELSE LtAt(a, b, i - 1)

LtW(a, b) == LtAt(a, b, Len(a))
GeW(a, b) == ~LtW(a, b)

\* a + b and a - b modulo 2^(8 * Len(a)).
RECURSIVE CarryIn(_, _, _)
CarryIn(a, b, i) ==
    IF i = 1 THEN 0
    ELSE (a[i - 1] + b[i - 1] + CarryIn(a, b, i - 1)) \div 256

AddW(a, b) == [i \in 1..Len(a) |-> (a[i] + b[i] + CarryIn(a, b, i)) % 256]

RECURSIVE BorrowIn(_, _, _)
BorrowIn(a, b, i) ==
    IF i = 1 THEN 0
    ELSE IF a[i - 1] - b[i - 1] - BorrowIn(a, b, i - 1) < 0 THEN 1 ELSE 0

SubW(a, b) == [i \in 1..Len(a) |-> (a[i] - b[i] - BorrowIn(a, b, i) + 256) % 256]

\* x << (8 * k) and x >> (8 * k) within the width of x.
ShlBytes(x, k) == [i \in 1..Len(x) |-> IF i > k THEN x[i - k] ELSE 0]
ShrBytes(x, k) == [i \in 1..Len(x) |-> IF i + k <= Len(x) THEN x[i + k] ELSE 0]
\* x & ((1 << (8 * k)) - 1)
LowBytes(x, k) == [i \in 1..Len(x) |-> IF i <= k THEN x[i] ELSE 0]

---------------------------------------------------------------------------
(* Sizes of the C++ types the interpreter reads and writes                 *)

\* sizeof(void *), sizeof(size_t), sizeof(uintptr_t), sizeof(uint64_t),
\* sizeof(HeapObject *), sizeof(WeakReference), sizeof(UnownedReference)
PtrSize == 8
\* sizeof(unsigned), sizeof(uint32_t)
UnsignedSize == 4

\* BytecodeLayouts.h: the fixed-size header that precedes the instructions.
layoutStringHeaderSize == 16

\* swift/ABI/System.h (arm64): bits of a pointer word reserved for tagging.
_swift_abi_SwiftSpareBitsMask == <<7, 0, 0, 0, 0, 0, 0, 240>>
\* swift/ABI/System.h (arm64): set in a foreign tagged pointer.
_swift_abi_ObjCReservedBitsMask == <<0, 0, 0, 0, 0, 0, 0, 128>>
\* The build has foreign-object interop (the Block and ObjCStrong entries).
SWIFT_OBJC_INTEROP == TRUE

---------------------------------------------------------------------------
(* The heap objects and the value storage                                  *)

NumObjects == 2
MaxExtraRefs == 1
BufBase == 1
BufLen == 40

ObjAddr(i) == 4096 + 16 * i
Objects == {ObjAddr(i) : i \in 0..(NumObjects - 1)}
Null == U(0, PtrSize)
Ptr(o) == U(o, PtrSize)

DestBase == BufBase
SrcBase == BufBase + BufLen
MemAddrs == BufBase..(BufBase + 2 * BufLen - 1)

InBounds(m, a, n) == n <= 2 * BufLen /\ \A i \in 0..(n - 1) : (a + i) \in DOMAIN m

\* The n bytes at address a (bytes outside the modelled storage read as 0).
Load(m, a, n) == [i \in 1..n |-> IF (a + i - 1) \in DOMAIN m THEN m[a + i - 1] ELSE 0]

---------------------------------------------------------------------------
(* The world a handler runs in                                             *)

World(readerPos, m, counts) ==
    [reader |-> readerPos, addrOffset |-> 0, mem |-> m, rc |-> counts,
     calls |-> <<>>, writes |-> [a \in DOMAIN m |-> 0],
     retained |-> [o \in DOMAIN counts |-> 0], released |-> [o \in DOMAIN counts |-> 0],
     undef |-> {}, fault |-> "none"]

Fault(w, what) == IF w.fault = "none" THEN [w EXCEPT !.fault = what] ELSE w

\* A read of n bytes at a: faults when it leaves the modelled storage.
Rd(w0, a, n) ==
    CHOOSE result \in {(
    IF InBounds(w.mem, a, n) THEN w ELSE Fault(w, "out-of-bounds")
      ) : w \in {w0}} : TRUE


\* The interpreter writes the bytes bs at address a.
Store(w0, a0, bs0) ==
    CHOOSE result \in {(
    IF ~InBounds(w.mem, a, Len(bs)) THEN Fault(w, "out-of-bounds")
    ELSE [w EXCEPT
            !.mem = [x \in DOMAIN @ |->
                        IF x >= a /\ x < a + Len(bs) THEN bs[x - a + 1] ELSE @[x]],
            !.writes = [x \in DOMAIN @ |->
                        IF x >= a /\ x < a + Len(bs) THEN @[x] + 1 ELSE @[x]]]
      ) : w \in {w0}, a \in {a0}, bs \in {bs0}} : TRUE


memcpy(w0, d, s, n) ==
    CHOOSE result \in {(
    IF ~InBounds(w.mem, s, n) THEN Fault(w, "out-of-bounds")
    ELSE Store(w, d, Load(w.mem, s, n))
      ) : w \in {w0}} : TRUE


---------------------------------------------------------------------------
(* The reference-count collaborators (black boxes of the runtime)          *)

RetainFns == {"swift_retain", "swift_errorRetain", "swift_unownedRetain",
              "swift_unknownObjectRetain", "swift_bridgeObjectRetain",
              "objc_retain", "_Block_copy"}
ReleaseFns == {"swift_release", "swift_errorRelease", "swift_unownedRelease",
               "swift_unknownObjectRelease", "swift_bridgeObjectRelease",
               "objc_release", "_Block_release"}
SlotDestroyFns == {"swift_weakDestroy", "swift_unknownObjectUnownedDestroy",
                   "swift_unknownObjectWeakDestroy"}
SlotCopyInitFns == {"swift_weakCopyInit", "swift_unknownObjectUnownedCopyInit",
                    "swift_unknownObjectWeakCopyInit"}
SlotCopyAssignFns == {"swift_weakCopyAssign", "swift_unknownObjectUnownedCopyAssign",
                      "swift_unknownObjectWeakCopyAssign"}
SlotTakeInitFns == {"swift_unknownObjectWeakTakeInit"}

Log(w, fn, a, b) == [w EXCEPT !.calls = Append(@, [fn |-> fn, a |-> a, b |-> b])]

\* One more reference to the object p points to.  A null pointer is ignored;
\* a pointer to no object, or to an object already deallocated, is undefined.
\* retained and released count the calls each object received.
IncRef(w0, p0) ==
    CHOOSE result \in {(
    IF zero THEN w
    ELSE IF o \notin Objects THEN Fault(w, "wild-pointer")
    ELSE IF w.rc[o] = 0
         THEN Fault([w EXCEPT !.rc[o] = @ + 1, !.retained[o] = @ + 1,
                              !.undef = @ \cup {o}],
                    "use-after-free")
    ELSE [w EXCEPT !.rc[o] = @ + 1, !.retained[o] = @ + 1]
      ) : w \in {w0}, zero \in {IsZero(p0)}, o \in {N(p0)}} : TRUE


\* One reference fewer; the object is deallocated when its count reaches 0.
DecRef(w0, p0) ==
    CHOOSE result \in {(
    IF zero THEN w
    ELSE IF o \notin Objects THEN Fault(w, "wild-pointer")
    ELSE IF w.rc[o] = 0
         THEN Fault([w EXCEPT !.released[o] = @ + 1, !.undef = @ \cup {o}],
                    "use-after-free")
    ELSE [w EXCEPT !.rc[o] = @ - 1, !.released[o] = @ + 1]
      ) : w \in {w0}, zero \in {IsZero(p0)}, o \in {N(p0)}} : TRUE


\* A collaborator call fn(a) or fn(a, b); a and b are pointer words.
Collab(w0, fn, a, b) ==
    CHOOSE result \in {(
    CASE fn \in RetainFns -> IncRef(w1, a)
      [] fn \in ReleaseFns -> DecRef(w1, a)
      [] fn \in SlotDestroyFns ->
            DecRef(Rd(w1, to, PtrSize), Load(w1.mem, to, PtrSize))
      [] fn \in SlotCopyInitFns ->
            IncRef(memcpy(w1, to, from, PtrSize), Load(w1.mem, from, PtrSize))
      [] fn \in SlotCopyAssignFns ->
            IF a = b THEN w1
            ELSE DecRef(IncRef(memcpy(w1, to, from, PtrSize),
                               Load(w1.mem, from, PtrSize)),
                        Load(w1.mem, to, PtrSize))
      [] fn \in SlotTakeInitFns -> memcpy(w1, to, from, PtrSize)
      [] OTHER -> Fault(w1, "unknown-collaborator")
      ) : w1 \in {Log(w0, fn, a, b)}, to \in {N(a)}, from \in {N(b)}} : TRUE


IsRetain(c) == c.fn \in RetainFns \cup SlotCopyInitFns \cup SlotCopyAssignFns
IsRelease(c) == c.fn \in ReleaseFns \cup SlotDestroyFns \cup SlotCopyAssignFns

---------------------------------------------------------------------------
(* LayoutStringReader1: a cursor into the layout string                    *)

\* readBytes<T>() / peekBytes<T>(k): the n bytes at reader + k
peekBytes(ls, reader, k, n) ==
    [i \in 1..n |-> IF reader + k + i <= Len(ls) THEN ls[reader + k + i] ELSE 0]

readBytes(ls, reader, n) == peekBytes(ls, reader, 0, n)

\* reader.skip(n)
skip(w, n) == [w EXCEPT !.reader = @ + n]

\* The in-value offset and the kind of the tag word at the reader.
TagOffset(word) == N(Cast(LowBytes(word, 7), PtrSize))
TagKind(word) == word[8]

\* The metadata record the handlers receive.
Metadata == [layoutStr |-> layoutStr, size |-> meta.size,
             isBitwiseTakable |-> meta.isBitwiseTakable,
             isValueInline |-> meta.isValueInline]

---------------------------------------------------------------------------
(* RefCountingKind: the index of each kind in the dispatch tables          *)

Kind_End == 0
Kind_Error == 1
Kind_NativeStrong == 2
Kind_NativeUnowned == 3
Kind_NativeWeak == 4
Kind_Unknown == 5
Kind_UnknownUnowned == 6
Kind_UnknownWeak == 7
Kind_Bridge == 8
Kind_Block == 9
Kind_ObjC == 10
Kind_Custom == 11
Kind_Metatype == 12
Kind_Generic == 13
Kind_Existential == 14
Kind_Resilient == 15
Kind_SinglePayloadEnumSimple == 16
Kind_SinglePayloadEnumFN == 17
Kind_SinglePayloadEnumFNResolved == 18
Kind_SinglePayloadEnumGeneric == 19
Kind_MultiPayloadEnumFN == 20
Kind_MultiPayloadEnumFNResolved == 21
Kind_MultiPayloadEnumGeneric == 22

---------------------------------------------------------------------------
(* readTagBytes                                                            *)

\* What swift_unreachable leaves in place of a value.
Unreachable == <<>>

\* Mutation: an unsupported width reads as a tag of zero.
readTagBytes_DefaultZero(m0, addr0, byteCount0) ==
    CHOOSE result \in {(
    CASE byteCount = 1 -> Cast(Load(m, addr, 1), 8)
      [] byteCount = 2 -> Cast(Load(m, addr, 2), 8)
      [] byteCount = 4 -> Cast(Load(m, addr, 4), 8)
      [] byteCount = 8 -> Cast(Load(m, addr, 8), 8)
      [] OTHER -> U(0, 8)
      ) : m \in {m0}, addr \in {addr0}, byteCount \in {byteCount0 % 256}} : TRUE

\* byteCount is a uint8_t: the argument is converted to it.
readTagBytes(m0, addr0, byteCount0) ==
    CHOOSE result \in {(
    CASE byteCount = 1 -> Cast(Load(m, addr, 1), 8)
      [] byteCount = 2 -> Cast(Load(m, addr, 2), 8)
      [] byteCount = 4 -> Cast(Load(m, addr, 4), 8)
      [] byteCount = 8 -> Cast(Load(m, addr, 8), 8)
      [] OTHER -> Unreachable
      ) : m \in {m0}, addr \in {addr0}, byteCount \in {byteCount0 % 256}} : TRUE


\* 1 << (pattern - 1) for a pattern of 1..7
ShiftPattern(pattern) == 2 ^ (pattern - 1)

---------------------------------------------------------------------------
(* Function pointers and type metadata the layout string refers to         *)

\* The address of the first byte of the layout string.
LayoutAddr == 2^16

\* (uintptr_t)(intptr_t)(int32_t)x for an 8-byte x.
SignExtend32(x) ==
    [i \in 1..8 |-> IF i <= 4 THEN x[i] ELSE IF x[4] >= 128 THEN 255 ELSE 0]

\* readRelativeFunctionPointer: the absolute address that the relative
\* offset at the reader designates (the reader then advances by 8).
readRelativeFunctionPointer(ls, reader) ==
    AddW(U(LayoutAddr + reader, PtrSize), SignExtend32(readBytes(ls, reader, 8)))

\* The relative offset, stored at position pos of the layout string, that
\* designates the address target.
RelativePointer(target, pos) ==
    Cast(SubW(U(target, 4), U(LayoutAddr + pos, 4)), PtrSize)

\* The compiler-emitted getEnumTag functions: the one at EnumTagFnAddr(k)
\* returns the byte at offset k of the enum value.
EnumTagFnAddr(k) == 2^13 + 16 * k
IsEnumTagFn(fn) ==
    /\ N(fn) >= EnumTagFnAddr(0) /\ N(fn) < EnumTagFnAddr(BufLen)
    /\ (N(fn) - EnumTagFnAddr(0)) % 16 = 0

\* unsigned enumTag = getEnumTag(addr): the value returned ...
getEnumTagValue(m, fn, addr) ==
    IF IsEnumTagFn(fn)
    THEN Cast(Load(m, addr + ((N(fn) - EnumTagFnAddr(0)) \div 16), 1), UnsignedSize)
    ELSE U(0, UnsignedSize)

\* ... and the call itself: a call through a pointer to no function is
\* undefined.
getEnumTagCall(w0, fn0, addr) ==
    CHOOSE result \in {(
    IF ~IsEnumTagFn(fn) THEN Fault(w, "wild-call")
    ELSE Rd(Log(w, "getEnumTag", fn, Ptr(addr)),
            addr + ((N(fn) - EnumTagFnAddr(0)) \div 16), 1)
      ) : w \in {w0}, fn \in {fn0}} : TRUE


\* The metadata accessors of resilient types: the accessor at
\* AccessorAddr(k) returns the metadata at TypeAddr(k), a type of 8 * k + 1
\* bytes: k words, the first a native strong reference, and one more byte.
AccessorAddr(k) == 2^14 + 16 * k
TypeAddr(k) == 2^15 + 16 * k
MaxTypeWords == 2
IsAccessor(fn) == \E k \in 1..MaxTypeWords : N(fn) = AccessorAddr(k)
IsType(type) == \E k \in 1..MaxTypeWords : N(type) = TypeAddr(k)

\* fn(metadata->getGenericArgs())
getResilientTypeMetadataValue(fn) ==
    IF IsAccessor(fn) THEN U(N(fn) - AccessorAddr(0) + TypeAddr(0), PtrSize) ELSE Null

vw_size(type) == IF IsType(type) THEN ((N(type) - TypeAddr(0)) \div 2) + 1 ELSE 0

\* The value witnesses of such a type, called through its metadata.
vw_destroy(w, type, object) ==
    IF ~IsType(type) THEN Fault(w, "wild-call")
    ELSE DecRef(Rd(Log(w, "vw_destroy", type, Ptr(object)), object, PtrSize),
                Load(w.mem, object, PtrSize))

vw_initializeWithCopy(w, type, dest, src) ==
    IF ~IsType(type) THEN Fault(w, "wild-call")
    ELSE IncRef(memcpy(Log(w, "vw_initializeWithCopy", Ptr(dest), Ptr(src)),
                       dest, src, vw_size(type)),
                Load(w.mem, src, PtrSize))

vw_initializeWithTake(w, type, dest, src) ==
    IF ~IsType(type) THEN Fault(w, "wild-call")
    ELSE memcpy(Log(w, "vw_initializeWithTake", Ptr(dest), Ptr(src)),
                dest, src, vw_size(type))

vw_assignWithCopy(w, type, dest, src) ==
    IF ~IsType(type) THEN Fault(w, "wild-call")
    ELSE IF dest = src THEN Log(w, "vw_assignWithCopy", Ptr(dest), Ptr(src))
    ELSE DecRef(IncRef(memcpy(Log(w, "vw_assignWithCopy", Ptr(dest), Ptr(src)),
                              dest, src, vw_size(type)),
                       Load(w.mem, src, PtrSize)),
                Load(w.mem, dest, PtrSize))

\* The words of the value buffer of an existential container.
NumWords_ValueBuffer == 3

\* A type too large for the value buffer of an existential container: its
\* values are boxed.
BoxedType == U(TypeAddr(4), PtrSize)

\* type->getValueWitnesses()->isValueInline(), for the type of a value held
\* in an existential container.
isValueInline(type) == vw_size(type) <= PtrSize * NumWords_ValueBuffer /\ IsType(type)

\* getExistentialTypeMetadata(object): the word after the value buffer.
getExistentialTypeMetadata(m, object) ==
    Load(m, object + (PtrSize * NumWords_ValueBuffer), PtrSize)

\* The types a layout string names by a metadata pointer: the pointer p (a
\* small number, 0 is the null pointer) stands for a type of one byte whose
\* top numExtraInhabitants byte values are its extra inhabitants.
XITypes == {1, 2}
XIType(p) == [size |-> 1, numExtraInhabitants |-> 2 * p]
vw_getNumExtraInhabitants(xiType) ==
    IF xiType = 0 THEN 0 ELSE XIType(xiType).numExtraInhabitants
FirstExtraInhabitant(xiType) == 256 - vw_getNumExtraInhabitants(xiType)

\* xiType->vw_getEnumTagSinglePayload(value, numEmptyCases): the witness of a
\* type with extra inhabitants, for at most that many empty cases.
vw_getEnumTagSinglePayload(xiType, m, value, numEmptyCases) ==
    LET index == m[value] - FirstExtraInhabitant(xiType)
    IN  IF index >= 0 /\ index < numEmptyCases THEN U(index + 1, UnsignedSize)
        ELSE U(0, UnsignedSize)

\* xiType->vw_storeEnumTagSinglePayload(value, whichCase, numEmptyCases): the
\* payload case leaves the value alone.
vw_storeEnumTagSinglePayload(xiType, w, value, whichCase, numEmptyCases) ==
    IF whichCase = 0 \/ whichCase > vw_getNumExtraInhabitants(xiType) THEN w
    ELSE Store(w, value, <<FirstExtraInhabitant(xiType) + whichCase - 1>>)

---------------------------------------------------------------------------
(* Destroy: the unary handlers                                             *)

handleEnd(metadata, w) == w

errorDestroyBranchless(metadata, w, addr) ==
    LET error == Load(w.mem, addr + w.addrOffset, PtrSize)
        w1 == Rd([w EXCEPT !.addrOffset = @ + PtrSize], addr + w.addrOffset, PtrSize)
    IN  Collab(w1, "swift_errorRelease", error, <<>>)

nativeStrongDestroyBranchless(metadata, w, addr) ==
    LET object == AndW(Load(w.mem, addr + w.addrOffset, PtrSize),
                       NotW(_swift_abi_SwiftSpareBitsMask))
        w1 == Rd([w EXCEPT !.addrOffset = @ + PtrSize], addr + w.addrOffset, PtrSize)
    IN  Collab(w1, "swift_release", object, <<>>)

unownedDestroyBranchless(metadata, w, addr) ==
    LET object == AndW(Load(w.mem, addr + w.addrOffset, PtrSize),
                       NotW(_swift_abi_SwiftSpareBitsMask))
        w1 == Rd([w EXCEPT !.addrOffset = @ + PtrSize], addr + w.addrOffset, PtrSize)
    IN  Collab(w1, "swift_unownedRelease", object, <<>>)

\* Mutation: the handler forgets to advance the cursor.
weakDestroyBranchless_NoAdvance(metadata, w, addr) ==
    Collab(w, "swift_weakDestroy", Ptr(addr + w.addrOffset), <<>>)

weakDestroyBranchless(metadata, w, addr) ==
    LET object == Ptr(addr + w.addrOffset)
        w1 == [w EXCEPT !.addrOffset = @ + PtrSize]
    IN  Collab(w1, "swift_weakDestroy", object, <<>>)

unknownDestroyBranchless(metadata, w, addr) ==
    LET object == Load(w.mem, addr + w.addrOffset, PtrSize)
        w1 == Rd([w EXCEPT !.addrOffset = @ + PtrSize], addr + w.addrOffset, PtrSize)
    IN  Collab(w1, "swift_unknownObjectRelease", object, <<>>)

unknownUnownedDestroyBranchless(metadata, w, addr) ==
    LET object == Ptr(addr + w.addrOffset)
        w1 == [w EXCEPT !.addrOffset = @ + PtrSize]
    IN  Collab(w1, "swift_unknownObjectUnownedDestroy", object, <<>>)

unknownWeakDestroyBranchless(metadata, w, addr) ==
    LET object == Ptr(addr + w.addrOffset)
        w1 == [w EXCEPT !.addrOffset = @ + PtrSize]
    IN  Collab(w1, "swift_unknownObjectWeakDestroy", object, <<>>)

bridgeDestroyBranchless(metadata, w, addr) ==
    LET object == Load(w.mem, addr + w.addrOffset, PtrSize)
        w1 == Rd([w EXCEPT !.addrOffset = @ + PtrSize], addr + w.addrOffset, PtrSize)
    IN  Collab(w1, "swift_bridgeObjectRelease", object, <<>>)

\* The six header fields of a SinglePayloadEnumSimple instruction, as read by
\* reader.readBytes(byteCountsAndOffset, payloadSize, zeroTagValue,
\* xiTagValues, refCountBytes, skip).
SimpleHeader(ls, reader) ==
    LET byteCountsAndOffset == peekBytes(ls, reader, 0, 8)
    IN  [extraTagBytesPattern |-> byteCountsAndOffset[8] \div 64,
         xiTagBytesPattern |-> (byteCountsAndOffset[8] \div 8) % 8,
         xiTagBytesOffset |-> N(Cast(LowBytes(byteCountsAndOffset, 4), 8)),
         payloadSize |-> N(peekBytes(ls, reader, 8, 8)),
         zeroTagValue |-> peekBytes(ls, reader, 16, 8),
         xiTagValues |-> peekBytes(ls, reader, 24, 8),
         refCountBytes |-> N(peekBytes(ls, reader, 32, 8)),
         skip |-> N(peekBytes(ls, reader, 40, 8)),
         size |-> 48]

singlePayloadEnumSimpleBranchless_destroy(metadata, w, addr) ==
    CHOOSE result \in {(
    CHOOSE result \in {(
    CHOOSE result \in {(
    CHOOSE result \in {(
        IF extraTag = Unreachable \/ xiTag = Unreachable
        THEN Fault(w1, "unreachable")
        ELSE IF xiTagBytesPattern # 0 /\ GeW(SubW(xiTag, h.zeroTagValue), h.xiTagValues)
        THEN w1
        ELSE [skip(w1, h.refCountBytes) EXCEPT !.addrOffset = @ + h.skip]
      ) : xiTag \in {
            IF xiTagBytesPattern # 0
            THEN readTagBytes(w.mem, addr + w.addrOffset + h.xiTagBytesOffset,
                              ShiftPattern(xiTagBytesPattern))
            ELSE U(0, 8)}} : TRUE
      ) : xiTagBytesPattern \in {
            IF h.extraTagBytesPattern # 0 /\ ~IsZero(extraTag)
            THEN 0 ELSE h.xiTagBytesPattern}} : TRUE
      ) : w1 \in {skip(w, h.size)},
          extraTag \in {
            IF h.extraTagBytesPattern # 0
            THEN readTagBytes(w.mem, addr + w.addrOffset + h.payloadSize,
                              ShiftPattern(h.extraTagBytesPattern))
            ELSE U(0, 8)}} : TRUE
      ) : h \in {SimpleHeader(metadata.layoutStr, w.reader)}} : TRUE

blockDestroyBranchless(metadata, w, addr) ==
    LET object == Ptr(addr + w.addrOffset)
        w1 == [w EXCEPT !.addrOffset = @ + PtrSize]
    IN  Collab(w1, "_Block_release", object, <<>>)

objcStrongDestroyBranchless(metadata, w, addr) ==
    LET object == Load(w.mem, addr + w.addrOffset, PtrSize)
        w1 == Rd([w EXCEPT !.addrOffset = @ + PtrSize], addr + w.addrOffset, PtrSize)
    IN  IF ~IsZero(AndW(object, _swift_abi_ObjCReservedBitsMask))
        THEN w1
        ELSE Collab(w1, "objc_release",
                    AndW(object, NotW(_swift_abi_SwiftSpareBitsMask)), <<>>)

\* The four header fields of a MultiPayloadEnumGeneric instruction, as read by
\* reader.readBytes(tagBytes, numPayloads, refCountBytes, enumSize).
MultiGenericHeader(ls, reader) ==
    [tagBytes |-> N(peekBytes(ls, reader, 0, 8)),
     numPayloads |-> peekBytes(ls, reader, 8, 8),
     refCountBytes |-> N(peekBytes(ls, reader, 16, 8)),
     enumSize |-> N(peekBytes(ls, reader, 24, 8)),
     size |-> 32]

RECURSIVE handleRefCountsDestroy(_, _, _)

\* A run of one of the interpreter's loops; fn names the loop, end is the
\* reader position a bounded loop stops at.
RECURSIVE RunLoop(_, _, _, _, _, _)

RunDestroy(metadata, w, addr) ==
    RunLoop("handleRefCountsDestroy", metadata, w, 0, addr, addr)

RunInitWithCopy(metadata, w, dest, src) ==
    RunLoop("handleRefCountsInitWithCopy", metadata, w, 0, dest, src)

RunSingleDestroy(metadata, w, end, addr) ==
    RunLoop("handleSingleRefCountDestroy", metadata, w, end, addr, addr)

RunSingleInitWithCopy(metadata, w, end, dest, src) ==
    RunLoop("handleSingleRefCountInitWithCopy", metadata, w, end, dest, src)

RunInitWithTake(metadata, w, dest, src) ==
    RunLoop("handleRefCountsInitWithTake", metadata, w, 0, dest, src)

RunAssignWithCopy(metadata, w, dest, src) ==
    RunLoop("handleRefCountsAssignWithCopy", metadata, w, 0, dest, src)

\* One pass of the loop of the entry point.
RunIteration(entry, metadata, w, dest, src) ==
    RunLoop(entry, metadata, w, 0, dest, src)


\* Mutation: the sub-stream is always that of the first table entry,
\* whatever the tag.
multiPayloadEnumGenericBranchless_destroy_FirstEntry(metadata, w, addr) ==
    LET ls == metadata.layoutStr
        h == MultiGenericHeader(ls, w.reader)
        enumTag == readTagBytes(w.mem, addr + w.addrOffset + h.enumSize - h.tagBytes,
                                h.tagBytes)
        w1 == skip(w, h.size + h.refCountBytes + (N(h.numPayloads) * PtrSize))
        w2 == [w1 EXCEPT !.addrOffset = @ + h.enumSize]
    IN  IF enumTag = Unreachable THEN Fault(w1, "unreachable")
        ELSE IF LtW(enumTag, h.numPayloads)
        THEN [RunDestroy(metadata,
                         [w2 EXCEPT !.reader = w.reader + h.size
                                        + (N(h.numPayloads) * PtrSize)
                                        + N(peekBytes(ls, w.reader + h.size, 0, 8)),
                                    !.addrOffset = w.addrOffset],
                         addr)
                EXCEPT !.reader = w2.reader, !.addrOffset = w2.addrOffset]
        ELSE w2

\* multiPayloadEnumGenericBranchless<handleRefCountsDestroy>
multiPayloadEnumGenericBranchless_destroy(metadata, w, addr) ==
    CHOOSE result \in {(
    CHOOSE result \in {(
    CHOOSE result \in {(
    CHOOSE result \in {(
    LET nestedAddrOffset == w.addrOffset
    IN  IF enumTag = Unreachable THEN Fault(w1, "unreachable")
        ELSE IF LtW(enumTag, h.numPayloads)
        THEN LET w2 == [w1 EXCEPT !.addrOffset = @ + h.enumSize]
                 refCountOffset == N(peekBytes(ls, nestedReader, N(enumTag) * PtrSize, 8))
                 nested == RunDestroy(
                             metadata,
                             [w2 EXCEPT !.reader = nestedReader
                                            + (N(h.numPayloads) * PtrSize) + refCountOffset,
                                        !.addrOffset = nestedAddrOffset],
                             addr)
             IN  [nested EXCEPT !.reader = w2.reader, !.addrOffset = w2.addrOffset]
        ELSE [w1 EXCEPT !.addrOffset = @ + h.enumSize]
      ) : enumTag \in {readTagBytes(w.mem, addr + w.addrOffset + tagBytesOffset, h.tagBytes)}} : TRUE
      ) : nestedReader \in {w.reader + h.size},
          tagBytesOffset \in {h.enumSize - h.tagBytes},
          w1 \in {skip(w, h.size + h.refCountBytes + (N(h.numPayloads) * PtrSize))}} : TRUE
      ) : h \in {MultiGenericHeader(ls, w.reader)}} : TRUE
      ) : ls \in {metadata.layoutStr}} : TRUE

\* The fields after the function pointer of a SinglePayloadEnumFN or
\* SinglePayloadEnumFNResolved instruction: refCountBytes and skip.
SingleFnHeader(ls, reader) ==
    [refCountBytes |-> N(peekBytes(ls, reader, 8, 8)),
     skip |-> N(peekBytes(ls, reader, 16, 8)),
     size |-> 24]

\* The body the two function-pointer handlers share, once getEnumTag is read.
SingleFnDestroy(getEnumTag, metadata, w, addr) ==
    CHOOSE result \in {(
    CHOOSE result \in {(
        IF IsZero(enumTag) THEN w1
        ELSE [skip(w1, h.refCountBytes) EXCEPT !.addrOffset = @ + h.skip]
      ) : enumTag \in {getEnumTagValue(w.mem, getEnumTag, addr + w.addrOffset)},
          w1 \in {skip(getEnumTagCall(w, getEnumTag, addr + w.addrOffset), h.size)}} : TRUE
      ) : h \in {SingleFnHeader(metadata.layoutStr, w.reader)}} : TRUE

singlePayloadEnumFNBranchless_destroy(metadata, w, addr) ==
    SingleFnDestroy(readRelativeFunctionPointer(metadata.layoutStr, w.reader),
                    metadata, w, addr)

singlePayloadEnumFNResolvedBranchless_destroy(metadata, w, addr) ==
    SingleFnDestroy(readBytes(metadata.layoutStr, w.reader, 8), metadata, w, addr)

\* The six header fields of a SinglePayloadEnumGeneric instruction.
SingleGenericHeader(ls, reader) ==
    LET tagBytesAndOffset == peekBytes(ls, reader, 0, 8)
    IN  [extraTagBytesPattern |-> tagBytesAndOffset[8] \div 64,
         xiTagBytesOffset |-> N(Cast(LowBytes(tagBytesAndOffset, 4), 8)),
         payloadSize |-> N(peekBytes(ls, reader, 8, 8)),
         xiType |-> N(peekBytes(ls, reader, 16, 8)),
         numEmptyCases |-> N(peekBytes(ls, reader, 24, UnsignedSize)),
         refCountBytes |-> N(peekBytes(ls, reader, 28, 8)),
         skip |-> N(peekBytes(ls, reader, 36, 8)),
         size |-> 44]

\* The case the generic single-payload handlers find in the value at addr:
\* "payload", "empty", or "unreachable" when readTagBytes is.
SingleGenericCase(h, m, addr) ==
    LET tagBytes ==
            IF h.extraTagBytesPattern # 0
            THEN readTagBytes(m, addr + h.payloadSize, ShiftPattern(h.extraTagBytesPattern))
            ELSE U(0, 8)
        xiType == IF h.extraTagBytesPattern # 0 /\ ~IsZero(tagBytes) THEN 0 ELSE h.xiType
    IN  IF tagBytes = Unreachable THEN "unreachable"
        ELSE IF xiType # 0
                /\ IsZero(vw_getEnumTagSinglePayload(xiType, m, addr + h.xiTagBytesOffset,
                                                     h.numEmptyCases))
        THEN "payload"
        ELSE "empty"

singlePayloadEnumGenericBranchless_destroy(metadata, w, addr) ==
    CHOOSE result \in {(
    CHOOSE result \in {(
        IF case = "unreachable" THEN Fault(w1, "unreachable")
        ELSE IF case = "payload" THEN w1
        ELSE [skip(w1, h.refCountBytes) EXCEPT !.addrOffset = @ + h.skip]
      ) : w1 \in {skip(w, h.size)},
          case \in {SingleGenericCase(h, w.mem, addr + w.addrOffset)}} : TRUE
      ) : h \in {SingleGenericHeader(metadata.layoutStr, w.reader)}} : TRUE

\* The fields after the function pointer of a MultiPayloadEnumFN or
\* MultiPayloadEnumFNResolved instruction.
MultiFnHeader(ls, reader) ==
    [numPayloads |-> peekBytes(ls, reader, 8, 8),
     refCountBytes |-> N(peekBytes(ls, reader, 16, 8)),
     enumSize |-> N(peekBytes(ls, reader, 24, 8)),
     size |-> 32]

\* Mutation: the cursors of the payload's nested run are handed back as the
\* outer ones.
MultiFnDestroy_NestedCursors(getEnumTag, metadata, w, addr) ==
    LET ls == metadata.layoutStr
        h == MultiFnHeader(ls, w.reader)
        enumTag == Cast(getEnumTagValue(w.mem, getEnumTag, addr + w.addrOffset), 8)
        w1 == skip(getEnumTagCall(w, getEnumTag, addr + w.addrOffset),
                   h.size + h.refCountBytes + (N(h.numPayloads) * PtrSize))
    IN  IF LtW(enumTag, h.numPayloads)
        THEN RunDestroy(
                 metadata,
                 [w1 EXCEPT !.reader = w.reader + h.size + (N(h.numPayloads) * PtrSize)
                                + N(peekBytes(ls, w.reader + h.size,
                                              N(enumTag) * PtrSize, 8)),
                            !.addrOffset = w.addrOffset],
                 addr)
        ELSE [w1 EXCEPT !.addrOffset = @ + h.enumSize]

\* The body the two function-pointer handlers share, once getEnumTag is read.
MultiFnDestroy(getEnumTag, metadata, w, addr) ==
    CHOOSE result \in {(
    CHOOSE result \in {(
    CHOOSE result \in {(
    LET nestedAddrOffset == w.addrOffset
    IN  IF LtW(enumTag, h.numPayloads)
        THEN LET w2 == [w1 EXCEPT !.addrOffset = @ + h.enumSize]
                 refCountOffset == N(peekBytes(ls, nestedReader, N(enumTag) * PtrSize, 8))
                 nested == RunDestroy(
                             metadata,
                             [w2 EXCEPT !.reader = nestedReader
                                            + (N(h.numPayloads) * PtrSize) + refCountOffset,
                                        !.addrOffset = nestedAddrOffset],
                             addr)
             IN  [nested EXCEPT !.reader = w2.reader, !.addrOffset = w2.addrOffset]
        ELSE [w1 EXCEPT !.addrOffset = @ + h.enumSize]
      ) : nestedReader \in {w.reader + h.size},
          enumTag \in {Cast(getEnumTagValue(w.mem, getEnumTag, addr + w.addrOffset), 8)},
          w1 \in {
            skip(getEnumTagCall(w, getEnumTag, addr + w.addrOffset),
                   h.size + h.refCountBytes + (N(h.numPayloads) * PtrSize))}} : TRUE
      ) : h \in {MultiFnHeader(ls, w.reader)}} : TRUE
      ) : ls \in {metadata.layoutStr}} : TRUE

\* multiPayloadEnumFNBranchless<handleRefCountsDestroy>
multiPayloadEnumFNBranchless_destroy(metadata, w, addr) ==
    MultiFnDestroy(readRelativeFunctionPointer(metadata.layoutStr, w.reader),
                   metadata, w, addr)

\* multiPayloadEnumFNResolvedBranchless<handleRefCountsDestroy>
multiPayloadEnumFNResolvedBranchless_destroy(metadata, w, addr) ==
    MultiFnDestroy(readBytes(metadata.layoutStr, w.reader, 8), metadata, w, addr)

metatypeDestroyBranchless(metadata, w, addr) ==
    LET type == readBytes(metadata.layoutStr, w.reader, 8)
        object == addr + w.addrOffset
    IN  vw_destroy([skip(w, 8) EXCEPT !.addrOffset = @ + vw_size(type)], type, object)

existentialDestroyBranchless(metadata, w, addr) ==
    CHOOSE result \in {(
    CHOOSE result \in {(
        IF isValueInline(type) THEN vw_destroy(w1, type, object)
        ELSE Collab(Rd(w1, object, PtrSize), "swift_release", Load(w.mem, object, PtrSize), <<>>)
      ) : type \in {getExistentialTypeMetadata(w.mem, object)},
          w1 \in {[Rd(w, object + (PtrSize * NumWords_ValueBuffer), PtrSize)
                     EXCEPT !.addrOffset = @ + (PtrSize * NumWords_ValueBuffer)]}} : TRUE
      ) : object \in {addr + w.addrOffset}} : TRUE

resilientDestroyBranchless(metadata, w, addr) ==
    CHOOSE result \in {(
    CHOOSE result \in {(
    LET object == addr + w.addrOffset
    IN  IF ~IsAccessor(fn) THEN Fault(skip(w, 8), "wild-call")
        ELSE vw_destroy([skip(w, 8) EXCEPT !.addrOffset = @ + vw_size(type)],
                        type, object)
      ) : type \in {getResilientTypeMetadataValue(fn)}} : TRUE
      ) : fn \in {readRelativeFunctionPointer(metadata.layoutStr, w.reader)}} : TRUE

\* destroyTableBranchless[tag](metadata, reader, addrOffset, addr)
destroyTableBranchless(tag, metadata, w0, addr) ==
    CHOOSE result \in {(
    CASE tag = Kind_End -> handleEnd(metadata, w)
      [] tag = Kind_Error -> errorDestroyBranchless(metadata, w, addr)
      [] tag = Kind_NativeStrong -> nativeStrongDestroyBranchless(metadata, w, addr)
      [] tag = Kind_NativeUnowned -> unownedDestroyBranchless(metadata, w, addr)
      [] tag = Kind_NativeWeak -> weakDestroyBranchless(metadata, w, addr)
      [] tag = Kind_Unknown -> unknownDestroyBranchless(metadata, w, addr)
      [] tag = Kind_UnknownUnowned -> unknownUnownedDestroyBranchless(metadata, w, addr)
      [] tag = Kind_UnknownWeak -> unknownWeakDestroyBranchless(metadata, w, addr)
      [] tag = Kind_Bridge -> bridgeDestroyBranchless(metadata, w, addr)
      [] tag = Kind_Block /\ SWIFT_OBJC_INTEROP -> blockDestroyBranchless(metadata, w, addr)
      [] tag = Kind_ObjC /\ SWIFT_OBJC_INTEROP -> objcStrongDestroyBranchless(metadata, w, addr)
      [] tag = Kind_Metatype -> metatypeDestroyBranchless(metadata, w, addr)
      [] tag = Kind_Existential -> existentialDestroyBranchless(metadata, w, addr)
      [] tag = Kind_Resilient -> resilientDestroyBranchless(metadata, w, addr)
      [] tag = Kind_SinglePayloadEnumSimple ->
            singlePayloadEnumSimpleBranchless_destroy(metadata, w, addr)
      [] tag = Kind_SinglePayloadEnumFN ->
            singlePayloadEnumFNBranchless_destroy(metadata, w, addr)
      [] tag = Kind_SinglePayloadEnumFNResolved ->
            singlePayloadEnumFNResolvedBranchless_destroy(metadata, w, addr)
      [] tag = Kind_SinglePayloadEnumGeneric ->
            singlePayloadEnumGenericBranchless_destroy(metadata, w, addr)
      [] tag = Kind_MultiPayloadEnumFN ->
            multiPayloadEnumFNBranchless_destroy(metadata, w, addr)
      [] tag = Kind_MultiPayloadEnumFNResolved ->
            multiPayloadEnumFNResolvedBranchless_destroy(metadata, w, addr)
      [] tag = Kind_MultiPayloadEnumGeneric ->
            multiPayloadEnumGenericBranchless_destroy(metadata, w, addr)
      [] tag \in {Kind_Block, Kind_ObjC, Kind_Custom, Kind_Generic} ->
            Fault(w, "null-handler")
      [] tag > Kind_MultiPayloadEnumGeneric -> Fault(w, "table-overrun")
      [] OTHER -> Fault(w, "unmodelled-kind")
      ) : w \in {w0}} : TRUE


\* Mutation: the instructions after the current one run first, the current
\* one last.
handleRefCountsDestroy_RestFirst(metadata, w0, addr) ==
    CHOOSE result \in {(
    LET tag == readBytes(metadata.layoutStr, w.reader, 8)
        w1 == [skip(w, 8) EXCEPT !.addrOffset = @ + TagOffset(tag)]
        current == destroyTableBranchless(TagKind(tag), metadata, w1, addr)
        rest == handleRefCountsDestroy(
                    metadata, [w1 EXCEPT !.reader = current.reader,
                                         !.addrOffset = current.addrOffset], addr)
    IN  IF w.fault # "none" THEN w
        ELSE IF TagKind(tag) = 0 THEN w1
        ELSE IF current.fault # "none" THEN current
        ELSE [destroyTableBranchless(TagKind(tag), metadata,
                                     [rest EXCEPT !.reader = w1.reader,
                                                  !.addrOffset = w1.addrOffset], addr)
                EXCEPT !.reader = rest.reader, !.addrOffset = rest.addrOffset]
      ) : w \in {w0}} : TRUE

handleRefCountsDestroy(metadata, w0, addr) ==
    CHOOSE result \in {(
    LET tag == readBytes(metadata.layoutStr, w.reader, 8)
        w1 == [skip(w, 8) EXCEPT !.addrOffset = @ + TagOffset(tag)]
    IN  IF w.fault # "none" THEN w
        ELSE IF TagKind(tag) = 0 THEN w1
        ELSE handleRefCountsDestroy(
                 metadata, destroyTableBranchless(TagKind(tag), metadata, w1, addr), addr)
      ) : w \in {w0}} : TRUE


---------------------------------------------------------------------------
(* initWithCopy and initWithTake: the binary handlers                      *)

\* Mutation: the raw word is passed to the collaborator, spare bits and all.
RetainWord_RawPointer(w0, dest, src, fn, masked) ==
    CHOOSE result \in {(
    LET object == Load(w.mem, src + w.addrOffset, PtrSize)
        w1 == Store(Rd(w, src + w.addrOffset, PtrSize), dest + w.addrOffset, object)
        w2 == [w1 EXCEPT !.addrOffset = w.addrOffset + PtrSize]
    IN  Collab(w2, fn, object, <<>>)
      ) : w \in {w0}} : TRUE

\* The handlers that load a word from src, store it in dest, then retain it.
RetainWord(w0, dest, src, fn, masked) ==
    CHOOSE result \in {(
    LET object == Load(w.mem, src + w.addrOffset, PtrSize)
        w1 == Store(Rd(w, src + w.addrOffset, PtrSize), dest + w.addrOffset, object)
        w2 == [w1 EXCEPT !.addrOffset = w.addrOffset + PtrSize]
    IN  Collab(w2, fn,
               IF masked THEN AndW(object, NotW(_swift_abi_SwiftSpareBitsMask)) ELSE object,
               <<>>)
      ) : w \in {w0}} : TRUE


\* The handlers that hand the two slots to a collaborator.
SlotCall(w0, dest, src, fn) ==
    CHOOSE result \in {(
    Collab([w EXCEPT !.addrOffset = w.addrOffset + PtrSize], fn,
           Ptr(dest + w.addrOffset), Ptr(src + w.addrOffset))
      ) : w \in {w0}} : TRUE


errorRetainBranchless(metadata, w, dest, src) ==
    RetainWord(w, dest, src, "swift_errorRetain", FALSE)

nativeStrongRetainBranchless(metadata, w, dest, src) ==
    RetainWord(w, dest, src, "swift_retain", TRUE)

unownedRetainBranchless(metadata, w, dest, src) ==
    RetainWord(w, dest, src, "swift_unownedRetain", TRUE)

weakCopyInitBranchless(metadata, w, dest, src) ==
    SlotCall(w, dest, src, "swift_weakCopyInit")

unknownRetainBranchless(metadata, w, dest, src) ==
    RetainWord(w, dest, src, "swift_unknownObjectRetain", FALSE)

unknownUnownedCopyInitBranchless(metadata, w, dest, src) ==
    SlotCall(w, dest, src, "swift_unknownObjectUnownedCopyInit")

unknownWeakCopyInitBranchless(metadata, w, dest, src) ==
    SlotCall(w, dest, src, "swift_unknownObjectWeakCopyInit")

bridgeRetainBranchless(metadata, w, dest, src) ==
    RetainWord(w, dest, src, "swift_bridgeObjectRetain", FALSE)

blockCopyBranchless(metadata, w, dest, src) ==
    LET block == Load(w.mem, src + w.addrOffset, PtrSize)
        w1 == Collab(Rd(w, src + w.addrOffset, PtrSize), "_Block_copy", block, <<>>)
        w2 == Store(w1, dest + w.addrOffset, block)
    IN  [w2 EXCEPT !.addrOffset = w.addrOffset + PtrSize]

objcStrongRetainBranchless(metadata, w, dest, src) ==
    LET object == Load(w.mem, src + w.addrOffset, PtrSize)
        w1 == Store(Rd(w, src + w.addrOffset, PtrSize), dest + w.addrOffset, object)
        w2 == [w1 EXCEPT !.addrOffset = w.addrOffset + PtrSize]
    IN  IF ~IsZero(AndW(object, _swift_abi_ObjCReservedBitsMask))
        THEN w2
        ELSE Collab(w2, "objc_retain",
                    AndW(object, NotW(_swift_abi_SwiftSpareBitsMask)), <<>>)

unknownWeakInitWithTake(metadata, w, dest, src) ==
    SlotCall(w, dest, src, "swift_unknownObjectWeakTakeInit")

\* singlePayloadEnumSimpleBranchless(metadata, reader, addrOffset, dest, src)
singlePayloadEnumSimpleBranchless(metadata, w, dest, src) ==
    CHOOSE result \in {(
    CHOOSE result \in {(
    CHOOSE result \in {(
    CHOOSE result \in {(
        IF extraTag = Unreachable \/ xiTag = Unreachable
        THEN Fault(w1, "unreachable")
        ELSE IF xiTagBytesPattern # 0 /\ GeW(SubW(xiTag, h.zeroTagValue), h.xiTagValues)
        THEN w1
        ELSE [skip(memcpy(w1, dest + w.addrOffset, src + w.addrOffset, h.skip),
                   h.refCountBytes)
                EXCEPT !.addrOffset = @ + h.skip]
      ) : xiTag \in {
            IF xiTagBytesPattern # 0
            THEN readTagBytes(w.mem, src + w.addrOffset + h.xiTagBytesOffset,
                              ShiftPattern(xiTagBytesPattern))
            ELSE U(0, 8)}} : TRUE
      ) : xiTagBytesPattern \in {
            IF h.extraTagBytesPattern # 0 /\ ~IsZero(extraTag)
            THEN 0 ELSE h.xiTagBytesPattern}} : TRUE
      ) : w1 \in {skip(w, h.size)},
          extraTag \in {
            IF h.extraTagBytesPattern # 0
            THEN readTagBytes(w.mem, src + w.addrOffset + h.payloadSize,
                              ShiftPattern(h.extraTagBytesPattern))
            ELSE U(0, 8)}} : TRUE
      ) : h \in {SimpleHeader(metadata.layoutStr, w.reader)}} : TRUE

RECURSIVE handleRefCountsInitWithCopy(_, _, _, _)
RECURSIVE handleRefCountsInitWithTake(_, _, _, _)

\* The template argument HandlerFn of the multi-payload handlers.
HandlerFn(name, metadata, w, dest, src) ==
    RunLoop(name, metadata, w, 0, dest, src)

\* Mutation: the bytes past the nested cursor are not copied.
CopyTrailingBytes_Skipped(nested, after, dest, src) ==
    [nested EXCEPT !.reader = after.reader, !.addrOffset = after.addrOffset]

\* The tail of the multi-payload copy handlers, after HandlerFn has run the
\* payload's sub-stream: the bytes of the enum past the nested cursor are
\* copied, and the outer reader and cursor (after) are in force again.
CopyTrailingBytes(nested0, after, dest, src) ==
    CHOOSE result \in {(
    LET trailingBytes == after.addrOffset - nested.addrOffset
        copied == IF trailingBytes # 0
                  THEN memcpy(nested, dest + nested.addrOffset,
                              src + nested.addrOffset, trailingBytes)
                  ELSE nested
    IN  [copied EXCEPT !.reader = after.reader, !.addrOffset = after.addrOffset]
      ) : nested \in {nested0}} : TRUE


\* multiPayloadEnumGenericBranchless<HandlerFn>(metadata, reader, addrOffset, dest, src)
multiPayloadEnumGenericBranchless(name, metadata, w, dest, src) ==
    CHOOSE result \in {(
    CHOOSE result \in {(
    CHOOSE result \in {(
    CHOOSE result \in {(
    CHOOSE result \in {(
    LET nestedAddrOffset == w.addrOffset
    IN  IF enumTag = Unreachable THEN Fault(w1, "unreachable")
        ELSE IF LtW(enumTag, h.numPayloads)
        THEN CopyTrailingBytes(
                 HandlerFn(name, metadata,
                           [w2 EXCEPT !.reader = nestedReader
                                          + (N(h.numPayloads) * PtrSize) + refCountOffset,
                                      !.addrOffset = nestedAddrOffset],
                           dest, src),
                 w2, dest, src)
        ELSE [memcpy(w1, dest + w.addrOffset, src + w.addrOffset, h.enumSize)
                EXCEPT !.addrOffset = @ + h.enumSize]
      ) : refCountOffset \in {N(peekBytes(ls, nestedReader, N(enumTag) * PtrSize, 8))}} : TRUE
      ) : enumTag \in {readTagBytes(w.mem, src + w.addrOffset + tagBytesOffset, h.tagBytes)},
          w2 \in {[w1 EXCEPT !.addrOffset = @ + h.enumSize]}} : TRUE
      ) : nestedReader \in {w.reader + h.size},
          tagBytesOffset \in {h.enumSize - h.tagBytes},
          w1 \in {skip(w, h.size + h.refCountBytes + (N(h.numPayloads) * PtrSize))}} : TRUE
      ) : h \in {MultiGenericHeader(ls, w.reader)}} : TRUE
      ) : ls \in {metadata.layoutStr}} : TRUE

\* The body the two function-pointer copy handlers share.
SingleFnCopy(getEnumTag, metadata, w, dest, src) ==
    CHOOSE result \in {(
    CHOOSE result \in {(
        IF IsZero(enumTag) THEN w1
        ELSE [memcpy(skip(w1, h.refCountBytes),
                     dest + w.addrOffset, src + w.addrOffset, h.skip)
                EXCEPT !.addrOffset = w.addrOffset + h.skip]
      ) : enumTag \in {getEnumTagValue(w.mem, getEnumTag, src + w.addrOffset)},
          w1 \in {skip(getEnumTagCall(w, getEnumTag, src + w.addrOffset), h.size)}} : TRUE
      ) : h \in {SingleFnHeader(metadata.layoutStr, w.reader)}} : TRUE

singlePayloadEnumFNBranchless(metadata, w, dest, src) ==
    SingleFnCopy(readRelativeFunctionPointer(metadata.layoutStr, w.reader),
                 metadata, w, dest, src)

singlePayloadEnumFNResolvedBranchless(metadata, w, dest, src) ==
    SingleFnCopy(readBytes(metadata.layoutStr, w.reader, 8), metadata, w, dest, src)

singlePayloadEnumGenericBranchless(metadata, w, dest, src) ==
    CHOOSE result \in {(
    CHOOSE result \in {(
        IF case = "unreachable" THEN Fault(w1, "unreachable")
        ELSE IF case = "payload" THEN w1
        ELSE [memcpy(skip(w1, h.refCountBytes),
                     dest + w.addrOffset, src + w.addrOffset, h.skip)
                EXCEPT !.addrOffset = w.addrOffset + h.skip]
      ) : w1 \in {skip(w, h.size)},
          case \in {SingleGenericCase(h, w.mem, src + w.addrOffset)}} : TRUE
      ) : h \in {SingleGenericHeader(metadata.layoutStr, w.reader)}} : TRUE

\* The body the two function-pointer multi-payload copy handlers share.
MultiFnCopy(getEnumTag, name, metadata, w, dest, src) ==
    CHOOSE result \in {(
    CHOOSE result \in {(
    CHOOSE result \in {(
    CHOOSE result \in {(
    LET nestedAddrOffset == w.addrOffset
    IN  IF LtW(enumTag, h.numPayloads)
        THEN CopyTrailingBytes(
                 HandlerFn(name, metadata,
                           [w2 EXCEPT !.reader = nestedReader
                                          + (N(h.numPayloads) * PtrSize) + refCountOffset,
                                      !.addrOffset = nestedAddrOffset],
                           dest, src),
                 w2, dest, src)
        ELSE [memcpy(w1, dest + w.addrOffset, src + w.addrOffset, h.enumSize)
                EXCEPT !.addrOffset = @ + h.enumSize]
      ) : w2 \in {[w1 EXCEPT !.addrOffset = @ + h.enumSize]},
          refCountOffset \in {N(peekBytes(ls, nestedReader, N(enumTag) * PtrSize, 8))}} : TRUE
      ) : nestedReader \in {w.reader + h.size},
          enumTag \in {Cast(getEnumTagValue(w.mem, getEnumTag, src + w.addrOffset), 8)},
          w1 \in {
            skip(getEnumTagCall(w, getEnumTag, src + w.addrOffset),
                   h.size + h.refCountBytes + (N(h.numPayloads) * PtrSize))}} : TRUE
      ) : h \in {MultiFnHeader(ls, w.reader)}} : TRUE
      ) : ls \in {metadata.layoutStr}} : TRUE

\* multiPayloadEnumFNBranchless<HandlerFn>(metadata, reader, addrOffset, dest, src)
multiPayloadEnumFNBranchless(name, metadata, w, dest, src) ==
    MultiFnCopy(readRelativeFunctionPointer(metadata.layoutStr, w.reader),
                name, metadata, w, dest, src)

\* multiPayloadEnumFNResolvedBranchless<HandlerFn>(metadata, reader, addrOffset, dest, src)
multiPayloadEnumFNResolvedBranchless(name, metadata, w, dest, src) ==
    MultiFnCopy(readBytes(metadata.layoutStr, w.reader, 8), name, metadata, w, dest, src)

metatypeInitWithCopyBranchless(metadata, w, dest, src) ==
    LET type == readBytes(metadata.layoutStr, w.reader, 8)
    IN  vw_initializeWithCopy([skip(w, 8) EXCEPT !.addrOffset = @ + vw_size(type)],
                              type, dest + w.addrOffset, src + w.addrOffset)

\* type->vw_initializeBufferWithCopyOfBuffer(destObject, srcObject): an inline
\* value is copied by its witness, of a boxed one the box is shared.
existentialInitWithCopyBranchless(metadata, w, dest, src) ==
    CHOOSE result \in {(
    CHOOSE result \in {(
        IF isValueInline(type) THEN vw_initializeWithCopy(w1, type, destObject, srcObject)
        ELSE Collab(memcpy(w1, destObject, srcObject, PtrSize), "swift_retain",
                    Load(w.mem, srcObject, PtrSize), <<>>)
      ) : type \in {getExistentialTypeMetadata(w.mem, srcObject)},
          w1 \in {[Rd(w, srcObject + (PtrSize * NumWords_ValueBuffer), PtrSize)
                     EXCEPT !.addrOffset = @ + (PtrSize * NumWords_ValueBuffer)]}} : TRUE
      ) : destObject \in {dest + w.addrOffset}, srcObject \in {src + w.addrOffset}} : TRUE

resilientInitWithCopyBranchless(metadata, w, dest, src) ==
    CHOOSE result \in {(
    CHOOSE result \in {(
        IF ~IsAccessor(fn) THEN Fault(skip(w, 8), "wild-call")
        ELSE vw_initializeWithCopy([skip(w, 8) EXCEPT !.addrOffset = @ + vw_size(type)],
                                   type, dest + w.addrOffset, src + w.addrOffset)
      ) : type \in {getResilientTypeMetadataValue(fn)}} : TRUE
      ) : fn \in {readRelativeFunctionPointer(metadata.layoutStr, w.reader)}} : TRUE

metatypeInitWithTake(metadata, w, dest, src) ==
    LET type == readBytes(metadata.layoutStr, w.reader, 8)
    IN  vw_initializeWithTake([skip(w, 8) EXCEPT !.addrOffset = @ + vw_size(type)],
                              type, dest + w.addrOffset, src + w.addrOffset)

existentialInitWithTake(metadata, w, dest, src) ==
    CHOOSE result \in {(
    CHOOSE result \in {(
        IF isValueInline(type) THEN vw_initializeWithTake(w1, type, destObject, srcObject)
        ELSE memcpy(w1, destObject, srcObject, PtrSize)
      ) : type \in {getExistentialTypeMetadata(w.mem, srcObject)},
          w1 \in {[Rd(w, srcObject + (PtrSize * NumWords_ValueBuffer), PtrSize)
                     EXCEPT !.addrOffset = @ + (PtrSize * NumWords_ValueBuffer)]}} : TRUE
      ) : destObject \in {dest + w.addrOffset}, srcObject \in {src + w.addrOffset}} : TRUE

resilientInitWithTake(metadata, w, dest, src) ==
    CHOOSE result \in {(
    CHOOSE result \in {(
        IF ~IsAccessor(fn) THEN Fault(skip(w, 8), "wild-call")
        ELSE vw_initializeWithTake([skip(w, 8) EXCEPT !.addrOffset = @ + vw_size(type)],
                                   type, dest + w.addrOffset, src + w.addrOffset)
      ) : type \in {getResilientTypeMetadataValue(fn)}} : TRUE
      ) : fn \in {readRelativeFunctionPointer(metadata.layoutStr, w.reader)}} : TRUE

\* initWithCopyTable[tag](metadata, reader, addrOffset, dest, src)
initWithCopyTable(tag, metadata, w0, dest, src) ==
    CHOOSE result \in {(
    CASE tag = Kind_End -> handleEnd(metadata, w)
      [] tag = Kind_Error -> errorRetainBranchless(metadata, w, dest, src)
      [] tag = Kind_NativeStrong -> nativeStrongRetainBranchless(metadata, w, dest, src)
      [] tag = Kind_NativeUnowned -> unownedRetainBranchless(metadata, w, dest, src)
      [] tag = Kind_NativeWeak -> weakCopyInitBranchless(metadata, w, dest, src)
      [] tag = Kind_Unknown -> unknownRetainBranchless(metadata, w, dest, src)
      [] tag = Kind_UnknownUnowned -> unknownUnownedCopyInitBranchless(metadata, w, dest, src)
      [] tag = Kind_UnknownWeak -> unknownWeakCopyInitBranchless(metadata, w, dest, src)
      [] tag = Kind_Bridge -> bridgeRetainBranchless(metadata, w, dest, src)
      [] tag = Kind_Block /\ SWIFT_OBJC_INTEROP -> blockCopyBranchless(metadata, w, dest, src)
      [] tag = Kind_ObjC /\ SWIFT_OBJC_INTEROP ->
            objcStrongRetainBranchless(metadata, w, dest, src)
      [] tag = Kind_SinglePayloadEnumSimple ->
            singlePayloadEnumSimpleBranchless(metadata, w, dest, src)
      [] tag = Kind_Metatype -> metatypeInitWithCopyBranchless(metadata, w, dest, src)
      [] tag = Kind_Existential -> existentialInitWithCopyBranchless(metadata, w, dest, src)
      [] tag = Kind_Resilient -> resilientInitWithCopyBranchless(metadata, w, dest, src)
      [] tag = Kind_SinglePayloadEnumFN ->
            singlePayloadEnumFNBranchless(metadata, w, dest, src)
      [] tag = Kind_SinglePayloadEnumFNResolved ->
            singlePayloadEnumFNResolvedBranchless(metadata, w, dest, src)
      [] tag = Kind_SinglePayloadEnumGeneric ->
            singlePayloadEnumGenericBranchless(metadata, w, dest, src)
      [] tag = Kind_MultiPayloadEnumFN ->
            multiPayloadEnumFNBranchless("handleRefCountsInitWithCopy",
                                         metadata, w, dest, src)
      [] tag = Kind_MultiPayloadEnumFNResolved ->
            multiPayloadEnumFNResolvedBranchless("handleRefCountsInitWithCopy",
                                                 metadata, w, dest, src)
      [] tag = Kind_MultiPayloadEnumGeneric ->
            multiPayloadEnumGenericBranchless("handleRefCountsInitWithCopy",
                                              metadata, w, dest, src)
      [] tag \in {Kind_Block, Kind_ObjC, Kind_Custom, Kind_Generic} ->
            Fault(w, "null-handler")
      [] tag > Kind_MultiPayloadEnumGeneric -> Fault(w, "table-overrun")
      [] OTHER -> Fault(w, "unmodelled-kind")
      ) : w \in {w0}} : TRUE


handleRefCountsInitWithCopy(metadata, w0, dest, src) ==
    CHOOSE result \in {(
    LET tag == readBytes(metadata.layoutStr, w.reader, 8)
        offset == TagOffset(tag)
        w1 == IF offset # 0
              THEN memcpy(skip(w, 8), dest + w.addrOffset, src + w.addrOffset, offset)
              ELSE skip(w, 8)
        w2 == [w1 EXCEPT !.addrOffset = w.addrOffset + offset]
    IN  IF w.fault # "none" THEN w
        ELSE IF TagKind(tag) = 0 THEN w2
        ELSE handleRefCountsInitWithCopy(
                 metadata, initWithCopyTable(TagKind(tag), metadata, w2, dest, src),
                 dest, src)
      ) : w \in {w0}} : TRUE


\* Mutation: the loop of initWithTake calls through every entry of its
\* table, null or not.
initWithTakeTableHasHandler_NoFallback(tag) == tag = tag

\* The entries of initWithTakeTable that are not null.
initWithTakeTableHasHandler(tag) ==
    tag \in {Kind_End, Kind_UnknownWeak, Kind_Bridge, Kind_Metatype, Kind_Existential,
             Kind_Resilient, Kind_SinglePayloadEnumSimple, Kind_SinglePayloadEnumFN,
             Kind_SinglePayloadEnumFNResolved, Kind_SinglePayloadEnumGeneric,
             Kind_MultiPayloadEnumFN, Kind_MultiPayloadEnumFNResolved,
             Kind_MultiPayloadEnumGeneric}

\* initWithTakeTable[tag](metadata, reader, addrOffset, dest, src)
initWithTakeTable(tag, metadata, w0, dest, src) ==
    CHOOSE result \in {(
    CASE tag = Kind_End -> handleEnd(metadata, w)
      [] tag = Kind_UnknownWeak -> unknownWeakInitWithTake(metadata, w, dest, src)
      [] tag = Kind_Bridge -> bridgeRetainBranchless(metadata, w, dest, src)
      [] tag = Kind_SinglePayloadEnumSimple ->
            singlePayloadEnumSimpleBranchless(metadata, w, dest, src)
      [] tag = Kind_Metatype -> metatypeInitWithTake(metadata, w, dest, src)
      [] tag = Kind_Existential -> existentialInitWithTake(metadata, w, dest, src)
      [] tag = Kind_Resilient -> resilientInitWithTake(metadata, w, dest, src)
      [] tag = Kind_SinglePayloadEnumFN ->
            singlePayloadEnumFNBranchless(metadata, w, dest, src)
      [] tag = Kind_SinglePayloadEnumFNResolved ->
            singlePayloadEnumFNResolvedBranchless(metadata, w, dest, src)
      [] tag = Kind_SinglePayloadEnumGeneric ->
            singlePayloadEnumGenericBranchless(metadata, w, dest, src)
      [] tag = Kind_MultiPayloadEnumFN ->
            multiPayloadEnumFNBranchless("handleRefCountsInitWithTake",
                                         metadata, w, dest, src)
      [] tag = Kind_MultiPayloadEnumFNResolved ->
            multiPayloadEnumFNResolvedBranchless("handleRefCountsInitWithTake",
                                                 metadata, w, dest, src)
      [] tag = Kind_MultiPayloadEnumGeneric ->
            multiPayloadEnumGenericBranchless("handleRefCountsInitWithTake",
                                              metadata, w, dest, src)
      [] tag > Kind_MultiPayloadEnumGeneric -> Fault(w, "table-overrun")
      [] OTHER -> Fault(w, "unmodelled-kind")
      ) : w \in {w0}} : TRUE


handleRefCountsInitWithTake(metadata, w0, dest, src) ==
    CHOOSE result \in {(
    LET tag == readBytes(metadata.layoutStr, w.reader, 8)
        offset == TagOffset(tag)
        w1 == IF offset # 0
              THEN memcpy(skip(w, 8), dest + w.addrOffset, src + w.addrOffset, offset)
              ELSE skip(w, 8)
        w2 == [w1 EXCEPT !.addrOffset = w.addrOffset + offset]
    IN  IF w.fault # "none" THEN w
        ELSE IF TagKind(tag) = 0 THEN w2
        ELSE IF initWithTakeTableHasHandler(TagKind(tag))
        THEN handleRefCountsInitWithTake(
                 metadata, initWithTakeTable(TagKind(tag), metadata, w2, dest, src),
                 dest, src)
        ELSE handleRefCountsInitWithTake(
                 metadata,
                 [memcpy(w2, dest + w2.addrOffset, src + w2.addrOffset, PtrSize)
                    EXCEPT !.addrOffset = w2.addrOffset + PtrSize],
                 dest, src)
      ) : w \in {w0}} : TRUE


---------------------------------------------------------------------------
(* assignWithCopy: the binary handlers                                     *)

\* The handlers that load both words, store the source word in dest, release
\* the old destination object and then retain the source object.
AssignWord(w0, dest, src, releaseFn, retainFn, masked) ==
    CHOOSE result \in {(
    LET destObject == Load(w.mem, dest + w.addrOffset, PtrSize)
        srcObject == Load(w.mem, src + w.addrOffset, PtrSize)
        w1 == Store(Rd(Rd(w, dest + w.addrOffset, PtrSize), src + w.addrOffset, PtrSize),
                    dest + w.addrOffset, srcObject)
        w2 == [w1 EXCEPT !.addrOffset = w.addrOffset + PtrSize]
        Strip(x) == IF masked THEN AndW(x, NotW(_swift_abi_SwiftSpareBitsMask)) ELSE x
    IN  Collab(Collab(w2, releaseFn, Strip(destObject), <<>>),
               retainFn, Strip(srcObject), <<>>)
      ) : w \in {w0}} : TRUE


errorAssignWithCopy(metadata, w, dest, src) ==
    AssignWord(w, dest, src, "swift_errorRelease", "swift_errorRetain", FALSE)

\* Mutation: the old destination object is not released.
nativeStrongAssignWithCopy_NoRelease(metadata, w, dest, src) ==
    RetainWord(w, dest, src, "swift_retain", TRUE)

nativeStrongAssignWithCopy(metadata, w, dest, src) ==
    AssignWord(w, dest, src, "swift_release", "swift_retain", TRUE)

unownedAssignWithCopy(metadata, w, dest, src) ==
    AssignWord(w, dest, src, "swift_unownedRelease", "swift_unownedRetain", TRUE)

weakAssignWithCopy(metadata, w, dest, src) ==
    SlotCall(w, dest, src, "swift_weakCopyAssign")

unknownAssignWithCopy(metadata, w, dest, src) ==
    AssignWord(w, dest, src, "swift_unknownObjectRelease", "swift_unknownObjectRetain", FALSE)

unknownUnownedAssignWithCopy(metadata, w, dest, src) ==
    SlotCall(w, dest, src, "swift_unknownObjectUnownedCopyAssign")

unknownWeakAssignWithCopy(metadata, w, dest, src) ==
    SlotCall(w, dest, src, "swift_unknownObjectWeakCopyAssign")

bridgeAssignWithCopy(metadata, w, dest, src) ==
    AssignWord(w, dest, src, "swift_bridgeObjectRelease", "swift_bridgeObjectRetain", FALSE)

blockAssignWithCopy(metadata, w, dest, src) ==
    LET w1 == Collab(Rd(w, dest + w.addrOffset, PtrSize), "_Block_release",
                     Load(w.mem, dest + w.addrOffset, PtrSize), <<>>)
        block == Load(w1.mem, src + w.addrOffset, PtrSize)
        w2 == Collab(Rd(w1, src + w.addrOffset, PtrSize), "_Block_copy", block, <<>>)
        w3 == Store(w2, dest + w.addrOffset, block)
    IN  [w3 EXCEPT !.addrOffset = w.addrOffset + PtrSize]

\* Mutation: the tagged-pointer test of the source word decides for the old
\* destination word as well.
objcStrongAssignWithCopy_TaggedBySource(metadata, w, dest, src) ==
    LET destObject == Load(w.mem, dest + w.addrOffset, PtrSize)
        srcObject == Load(w.mem, src + w.addrOffset, PtrSize)
        w1 == Store(Rd(Rd(w, dest + w.addrOffset, PtrSize), src + w.addrOffset, PtrSize),
                    dest + w.addrOffset, srcObject)
        w2 == [w1 EXCEPT !.addrOffset = w.addrOffset + PtrSize]
    IN  IF IsZero(AndW(srcObject, _swift_abi_ObjCReservedBitsMask))
        THEN Collab(Collab(w2, "objc_release",
                           AndW(destObject, NotW(_swift_abi_SwiftSpareBitsMask)), <<>>),
                    "objc_retain",
                    AndW(srcObject, NotW(_swift_abi_SwiftSpareBitsMask)), <<>>)
        ELSE w2

objcStrongAssignWithCopy(metadata, w, dest, src) ==
    LET destObject == Load(w.mem, dest + w.addrOffset, PtrSize)
        srcObject == Load(w.mem, src + w.addrOffset, PtrSize)
        w1 == Store(Rd(Rd(w, dest + w.addrOffset, PtrSize), src + w.addrOffset, PtrSize),
                    dest + w.addrOffset, srcObject)
        w2 == [w1 EXCEPT !.addrOffset = w.addrOffset + PtrSize]
        w3 == IF IsZero(AndW(destObject, _swift_abi_ObjCReservedBitsMask))
              THEN Collab(w2, "objc_release",
                          AndW(destObject, NotW(_swift_abi_SwiftSpareBitsMask)), <<>>)
              ELSE w2
    IN  IF IsZero(AndW(srcObject, _swift_abi_ObjCReservedBitsMask))
        THEN Collab(w3, "objc_retain",
                    AndW(srcObject, NotW(_swift_abi_SwiftSpareBitsMask)), <<>>)
        ELSE w3

handleSingleRefCountDestroy(metadata, w, addr) ==
    LET tag == readBytes(metadata.layoutStr, w.reader, 8)
        w1 == [skip(w, 8) EXCEPT !.addrOffset = @ + TagOffset(tag)]
    IN  IF TagKind(tag) = 0 THEN w1
        ELSE destroyTableBranchless(TagKind(tag), metadata, w1, addr)

handleSingleRefCountInitWithCopy(metadata, w, dest, src) ==
    LET tag == readBytes(metadata.layoutStr, w.reader, 8)
        w1 == [skip(w, 8) EXCEPT !.addrOffset = @ + TagOffset(tag)]
    IN  IF TagKind(tag) = 0 THEN w1
        ELSE initWithCopyTable(TagKind(tag), metadata, w1, dest, src)

\* while (reader.layoutStr < end) handleSingleRefCountInitWithCopy(...)
RECURSIVE WhileSingleRefCountInitWithCopy(_, _, _, _, _)
WhileSingleRefCountInitWithCopy(metadata, w0, end, dest, src) ==
    CHOOSE result \in {(
    IF w.fault # "none" \/ ~(w.reader < end) THEN w
    ELSE WhileSingleRefCountInitWithCopy(
             metadata, handleSingleRefCountInitWithCopy(metadata, w, dest, src),
             end, dest, src)
      ) : w \in {w0}} : TRUE


\* while (reader.layoutStr < end) handleSingleRefCountDestroy(...)
RECURSIVE WhileSingleRefCountDestroy(_, _, _, _)
WhileSingleRefCountDestroy(metadata, w0, end, addr) ==
    CHOOSE result \in {(
    IF w.fault # "none" \/ ~(w.reader < end) THEN w
    ELSE WhileSingleRefCountDestroy(
             metadata, handleSingleRefCountDestroy(metadata, w, addr), end, addr)
      ) : w \in {w0}} : TRUE


singlePayloadEnumSimpleAssignWithCopy(metadata, w, dest, src) ==
    CHOOSE result \in {(
    CHOOSE result \in {(
    CHOOSE result \in {(
    LET extraTagBytes == ShiftPattern(h.extraTagBytesPattern)
        xiTagBytes == ShiftPattern(h.xiTagBytesPattern)
        srcExtra == IF h.extraTagBytesPattern # 0
                    THEN readTagBytes(w.mem, src + w.addrOffset + h.payloadSize, extraTagBytes)
                    ELSE U(0, 8)
        destExtra == IF h.extraTagBytesPattern # 0
                     THEN readTagBytes(w.mem, dest + w.addrOffset + h.payloadSize, extraTagBytes)
                     ELSE U(0, 8)
        srcXI == readTagBytes(w.mem, src + w.addrOffset + h.xiTagBytesOffset, xiTagBytes)
        destXI == readTagBytes(w.mem, dest + w.addrOffset + h.xiTagBytesOffset, xiTagBytes)
        unreachable ==
            \/ srcExtra = Unreachable \/ destExtra = Unreachable
            \/ h.xiTagBytesPattern # 0 /\ IsZero(srcExtra) /\ srcXI = Unreachable
            \/ h.xiTagBytesPattern # 0 /\ IsZero(destExtra) /\ destXI = Unreachable
        srcTagBytes == IF h.xiTagBytesPattern = 0 THEN srcExtra
                       ELSE IF ~IsZero(srcExtra) THEN U(0, 8)
                       ELSE SubW(srcXI, h.zeroTagValue)
        destTagBytes == IF h.xiTagBytesPattern = 0 THEN destExtra
                        ELSE IF ~IsZero(destExtra) THEN U(0, 8)
                        ELSE SubW(destXI, h.zeroTagValue)
        copied(x) == [memcpy(x, dest + w.addrOffset, src + w.addrOffset, h.skip)
                        EXCEPT !.addrOffset = w.addrOffset + h.skip]
    IN  IF unreachable THEN Fault(w1, "unreachable")
        ELSE IF GeW(srcTagBytes, h.xiTagValues) /\ GeW(destTagBytes, h.xiTagValues)
        THEN w1
        ELSE IF GeW(srcTagBytes, h.xiTagValues)
        THEN RunSingleInitWithCopy(metadata, w1, end, dest, src)
        ELSE IF GeW(destTagBytes, h.xiTagValues)
        THEN LET nested == RunSingleDestroy(metadata, w1, end, dest)
             IN  copied([nested EXCEPT !.addrOffset = w.addrOffset])
        ELSE copied(skip(w1, h.refCountBytes))
      ) : end \in {w1.reader + h.refCountBytes}} : TRUE
      ) : w1 \in {skip(w, h.size)}} : TRUE
      ) : h \in {SimpleHeader(metadata.layoutStr, w.reader)}} : TRUE

\* The world with the reader and cursor of another one.
Resume(x, after) == [x EXCEPT !.reader = after.reader, !.addrOffset = after.addrOffset]

\* Mutation: the old payload of dest is destroyed by the sub-stream the tag
\* of src selects.
multiPayloadEnumGenericAssignWithCopy_SrcStreamForDest(metadata, w, dest, src) ==
    CHOOSE result \in {(
    CHOOSE result \in {(
    CHOOSE result \in {(
    CHOOSE result \in {(
    LET nestedAddrOffset == w.addrOffset
        refCountOffset(tag) == N(peekBytes(ls, nestedReader, N(tag) * PtrSize, 8))
        payloadReader(tag) == nestedReader + (N(h.numPayloads) * PtrSize) + refCountOffset(tag)
        srcPayload == [reader |-> payloadReader(srcTag), addrOffset |-> nestedAddrOffset]
        destPayload == [reader |-> payloadReader(srcTag), addrOffset |-> nestedAddrOffset]
    IN  IF srcTag = Unreachable THEN Fault(w1, "unreachable")
        ELSE IF LtW(srcTag, h.numPayloads)
        THEN CopyTrailingBytes(
                 RunInitWithCopy(
                     metadata,
                     Resume(IF LtW(destTag, h.numPayloads)
                            THEN RunDestroy(
                                     metadata, Resume(w2, destPayload), dest)
                            ELSE w2,
                            srcPayload),
                     dest, src),
                 w2, dest, src)
        ELSE [memcpy(IF LtW(destTag, h.numPayloads)
                     THEN Resume(RunDestroy(
                                     metadata, Resume(w1, destPayload), dest), w1)
                     ELSE w1,
                     dest + w.addrOffset, src + w.addrOffset, h.enumSize)
                EXCEPT !.addrOffset = w.addrOffset + h.enumSize]
      ) : srcTag \in {readTagBytes(w.mem, src + w.addrOffset + tagBytesOffset, h.tagBytes)},
          destTag \in {readTagBytes(w.mem, dest + w.addrOffset + tagBytesOffset, h.tagBytes)},
          w2 \in {[w1 EXCEPT !.addrOffset = @ + h.enumSize]}} : TRUE
      ) : nestedReader \in {w.reader + h.size},
          tagBytesOffset \in {h.enumSize - h.tagBytes},
          w1 \in {skip(w, h.size + h.refCountBytes + (N(h.numPayloads) * PtrSize))}} : TRUE
      ) : h \in {MultiGenericHeader(ls, w.reader)}} : TRUE
      ) : ls \in {metadata.layoutStr}} : TRUE

multiPayloadEnumGenericAssignWithCopy(metadata, w, dest, src) ==
    CHOOSE result \in {(
    CHOOSE result \in {(
    CHOOSE result \in {(
    CHOOSE result \in {(
    LET nestedAddrOffset == w.addrOffset
        refCountOffset(tag) == N(peekBytes(ls, nestedReader, N(tag) * PtrSize, 8))
        payloadReader(tag) == nestedReader + (N(h.numPayloads) * PtrSize) + refCountOffset(tag)
        srcPayload == [reader |-> payloadReader(srcTag), addrOffset |-> nestedAddrOffset]
        destPayload == [reader |-> payloadReader(destTag), addrOffset |-> nestedAddrOffset]
    IN  IF srcTag = Unreachable THEN Fault(w1, "unreachable")
        ELSE IF LtW(srcTag, h.numPayloads)
        THEN CopyTrailingBytes(
                 RunInitWithCopy(
                     metadata,
                     Resume(IF LtW(destTag, h.numPayloads)
                            THEN RunDestroy(
                                     metadata, Resume(w2, destPayload), dest)
                            ELSE w2,
                            srcPayload),
                     dest, src),
                 w2, dest, src)
        ELSE [memcpy(IF LtW(destTag, h.numPayloads)
                     THEN Resume(RunDestroy(
                                     metadata, Resume(w1, destPayload), dest), w1)
                     ELSE w1,
                     dest + w.addrOffset, src + w.addrOffset, h.enumSize)
                EXCEPT !.addrOffset = w.addrOffset + h.enumSize]
      ) : srcTag \in {readTagBytes(w.mem, src + w.addrOffset + tagBytesOffset, h.tagBytes)},
          destTag \in {readTagBytes(w.mem, dest + w.addrOffset + tagBytesOffset, h.tagBytes)},
          w2 \in {[w1 EXCEPT !.addrOffset = @ + h.enumSize]}} : TRUE
      ) : nestedReader \in {w.reader + h.size},
          tagBytesOffset \in {h.enumSize - h.tagBytes},
          w1 \in {skip(w, h.size + h.refCountBytes + (N(h.numPayloads) * PtrSize))}} : TRUE
      ) : h \in {MultiGenericHeader(ls, w.reader)}} : TRUE
      ) : ls \in {metadata.layoutStr}} : TRUE

\* The tail the single-payload assign handlers share once both tags are known
\* (a tag of zero is the payload case); w1 is the world after the header.
SingleAssignTail(srcIsPayload, destIsPayload, refCountBytes, skipBytes, metadata, w, w10, dest, src) ==
    CHOOSE result \in {(
    IF srcIsPayload /\ destIsPayload THEN w1
    ELSE IF srcIsPayload
    THEN RunSingleInitWithCopy(metadata, w1, w1.reader + refCountBytes, dest, src)
    ELSE [memcpy(IF destIsPayload
                 THEN [RunSingleDestroy(metadata, w1, w1.reader + refCountBytes,
                                                  dest)
                         EXCEPT !.addrOffset = w.addrOffset]
                 ELSE skip(w1, refCountBytes),
                 dest + w.addrOffset, src + w.addrOffset, skipBytes)
            EXCEPT !.addrOffset = w.addrOffset + skipBytes]
      ) : w1 \in {w10}} : TRUE


\* The body the two function-pointer assign handlers share.
SingleFnAssignWithCopy(getEnumTag, metadata, w, dest, src) ==
    CHOOSE result \in {(
    CHOOSE result \in {(
        SingleAssignTail(IsZero(srcTag), IsZero(destTag), h.refCountBytes, h.skip,
                         metadata, w, w1, dest, src)
      ) : srcTag \in {getEnumTagValue(w.mem, getEnumTag, src + w.addrOffset)},
          destTag \in {getEnumTagValue(w.mem, getEnumTag, dest + w.addrOffset)},
          w1 \in {
            skip(getEnumTagCall(getEnumTagCall(w, getEnumTag, src + w.addrOffset),
                                  getEnumTag, dest + w.addrOffset),
                   h.size)}} : TRUE
      ) : h \in {SingleFnHeader(metadata.layoutStr, w.reader)}} : TRUE

singlePayloadEnumFNAssignWithCopy(metadata, w, dest, src) ==
    SingleFnAssignWithCopy(readRelativeFunctionPointer(metadata.layoutStr, w.reader),
                           metadata, w, dest, src)

singlePayloadEnumFNResolvedAssignWithCopy(metadata, w, dest, src) ==
    SingleFnAssignWithCopy(readBytes(metadata.layoutStr, w.reader, 8),
                           metadata, w, dest, src)

\* srcTag / destTag of singlePayloadEnumGenericAssignWithCopy for the value
\* at addr: the extra tag bytes, else the tag the XI witness reports.
SingleGenericAssignTag(h, m, addr) ==
    LET extra == IF h.extraTagBytesPattern # 0
                 THEN readTagBytes(m, addr + h.payloadSize,
                                   ShiftPattern(h.extraTagBytesPattern))
                 ELSE U(0, 8)
    IN  IF extra = Unreachable THEN Unreachable
        ELSE IF h.xiType # 0 /\ IsZero(extra)
        THEN Cast(vw_getEnumTagSinglePayload(h.xiType, m, addr + h.xiTagBytesOffset,
                                             h.numEmptyCases), 8)
        ELSE extra

singlePayloadEnumGenericAssignWithCopy(metadata, w, dest, src) ==
    CHOOSE result \in {(
    CHOOSE result \in {(
        IF srcTag = Unreachable \/ destTag = Unreachable THEN Fault(w1, "unreachable")
        ELSE SingleAssignTail(IsZero(srcTag), IsZero(destTag), h.refCountBytes, h.skip,
                              metadata, w, w1, dest, src)
      ) : w1 \in {skip(w, h.size)},
          srcTag \in {SingleGenericAssignTag(h, w.mem, src + w.addrOffset)},
          destTag \in {SingleGenericAssignTag(h, w.mem, dest + w.addrOffset)}} : TRUE
      ) : h \in {SingleGenericHeader(metadata.layoutStr, w.reader)}} : TRUE

\* The body the two function-pointer multi-payload assign handlers share.
MultiFnAssignWithCopy(getEnumTag, metadata, w, dest, src) ==
    CHOOSE result \in {(
    CHOOSE result \in {(
    CHOOSE result \in {(
    CHOOSE result \in {(
    LET nestedAddrOffset == w.addrOffset
        refCountOffset(tag) == N(peekBytes(ls, nestedReader, N(tag) * PtrSize, 8))
        payloadReader(tag) == nestedReader + (N(h.numPayloads) * PtrSize) + refCountOffset(tag)
        srcPayload == [reader |-> payloadReader(srcTag), addrOffset |-> nestedAddrOffset]
        destPayload == [reader |-> payloadReader(destTag), addrOffset |-> nestedAddrOffset]
    IN  IF LtW(srcTag, h.numPayloads)
        THEN CopyTrailingBytes(
                 RunInitWithCopy(
                     metadata,
                     Resume(IF LtW(destTag, h.numPayloads)
                            THEN RunDestroy(
                                     metadata, Resume(w2, destPayload), dest)
                            ELSE w2,
                            srcPayload),
                     dest, src),
                 w2, dest, src)
        ELSE [memcpy(IF LtW(destTag, h.numPayloads)
                     THEN Resume(RunDestroy(
                                     metadata, Resume(w1, destPayload), dest), w1)
                     ELSE w1,
                     dest + w.addrOffset, src + w.addrOffset, h.enumSize)
                EXCEPT !.addrOffset = w.addrOffset + h.enumSize]
      ) : w2 \in {[w1 EXCEPT !.addrOffset = @ + h.enumSize]}} : TRUE
      ) : nestedReader \in {w.reader + h.size},
          srcTag \in {Cast(getEnumTagValue(w.mem, getEnumTag, src + w.addrOffset), 8)},
          destTag \in {Cast(getEnumTagValue(w.mem, getEnumTag, dest + w.addrOffset), 8)},
          w1 \in {
            skip(getEnumTagCall(getEnumTagCall(w, getEnumTag, src + w.addrOffset),
                                  getEnumTag, dest + w.addrOffset),
                   h.size + h.refCountBytes + (N(h.numPayloads) * PtrSize))}} : TRUE
      ) : h \in {MultiFnHeader(ls, w.reader)}} : TRUE
      ) : ls \in {metadata.layoutStr}} : TRUE

multiPayloadEnumFNAssignWithCopy(metadata, w, dest, src) ==
    MultiFnAssignWithCopy(readRelativeFunctionPointer(metadata.layoutStr, w.reader),
                          metadata, w, dest, src)

multiPayloadEnumFNResolvedAssignWithCopy(metadata, w, dest, src) ==
    MultiFnAssignWithCopy(readBytes(metadata.layoutStr, w.reader, 8),
                          metadata, w, dest, src)

metatypeAssignWithCopy(metadata, w, dest, src) ==
    LET type == readBytes(metadata.layoutStr, w.reader, 8)
    IN  vw_assignWithCopy([skip(w, 8) EXCEPT !.addrOffset = @ + vw_size(type)],
                          type, dest + w.addrOffset, src + w.addrOffset)

existentialAssignWithCopy(metadata, w, dest, src) ==
    CHOOSE result \in {(
    CHOOSE result \in {(
        IF isValueInline(type) THEN vw_assignWithCopy(w1, type, destObject, srcObject)
        ELSE Collab(memcpy(Collab(Rd(w1, destObject, PtrSize), "swift_release",
                                  Load(w.mem, destObject, PtrSize), <<>>),
                           destObject, srcObject, PtrSize),
                    "swift_retain", Load(w.mem, srcObject, PtrSize), <<>>)
      ) : type \in {getExistentialTypeMetadata(w.mem, srcObject)},
          w1 \in {[Rd(w, srcObject + (PtrSize * NumWords_ValueBuffer), PtrSize)
                     EXCEPT !.addrOffset = @ + (PtrSize * NumWords_ValueBuffer)]}} : TRUE
      ) : destObject \in {dest + w.addrOffset}, srcObject \in {src + w.addrOffset}} : TRUE

resilientAssignWithCopy(metadata, w, dest, src) ==
    CHOOSE result \in {(
    CHOOSE result \in {(
        IF ~IsAccessor(fn) THEN Fault(skip(w, 8), "wild-call")
        ELSE vw_assignWithCopy([skip(w, 8) EXCEPT !.addrOffset = @ + vw_size(type)],
                               type, dest + w.addrOffset, src + w.addrOffset)
      ) : type \in {getResilientTypeMetadataValue(fn)}} : TRUE
      ) : fn \in {readRelativeFunctionPointer(metadata.layoutStr, w.reader)}} : TRUE

\* assignWithCopyTable[tag](metadata, reader, addrOffset, dest, src)
assignWithCopyTable(tag, metadata, w0, dest, src) ==
    CHOOSE result \in {(
    CASE tag = Kind_End -> handleEnd(metadata, w)
      [] tag = Kind_Error -> errorAssignWithCopy(metadata, w, dest, src)
      [] tag = Kind_NativeStrong -> nativeStrongAssignWithCopy(metadata, w, dest, src)
      [] tag = Kind_NativeUnowned -> unownedAssignWithCopy(metadata, w, dest, src)
      [] tag = Kind_NativeWeak -> weakAssignWithCopy(metadata, w, dest, src)
      [] tag = Kind_Unknown -> unknownAssignWithCopy(metadata, w, dest, src)
      [] tag = Kind_UnknownUnowned -> unknownUnownedAssignWithCopy(metadata, w, dest, src)
      [] tag = Kind_UnknownWeak -> unknownWeakAssignWithCopy(metadata, w, dest, src)
      [] tag = Kind_Bridge -> bridgeAssignWithCopy(metadata, w, dest, src)
      [] tag = Kind_Block /\ SWIFT_OBJC_INTEROP -> blockAssignWithCopy(metadata, w, dest, src)
      [] tag = Kind_ObjC /\ SWIFT_OBJC_INTEROP ->
            objcStrongAssignWithCopy(metadata, w, dest, src)
      [] tag = Kind_Metatype -> metatypeAssignWithCopy(metadata, w, dest, src)
      [] tag = Kind_Existential -> existentialAssignWithCopy(metadata, w, dest, src)
      [] tag = Kind_Resilient -> resilientAssignWithCopy(metadata, w, dest, src)
      [] tag = Kind_SinglePayloadEnumSimple ->
            singlePayloadEnumSimpleAssignWithCopy(metadata, w, dest, src)
      [] tag = Kind_SinglePayloadEnumFN ->
            singlePayloadEnumFNAssignWithCopy(metadata, w, dest, src)
      [] tag = Kind_SinglePayloadEnumFNResolved ->
            singlePayloadEnumFNResolvedAssignWithCopy(metadata, w, dest, src)
      [] tag = Kind_SinglePayloadEnumGeneric ->
            singlePayloadEnumGenericAssignWithCopy(metadata, w, dest, src)
      [] tag = Kind_MultiPayloadEnumFN ->
            multiPayloadEnumFNAssignWithCopy(metadata, w, dest, src)
      [] tag = Kind_MultiPayloadEnumFNResolved ->
            multiPayloadEnumFNResolvedAssignWithCopy(metadata, w, dest, src)
      [] tag = Kind_MultiPayloadEnumGeneric ->
            multiPayloadEnumGenericAssignWithCopy(metadata, w, dest, src)
      [] tag \in {Kind_Block, Kind_ObjC, Kind_Custom, Kind_Generic} ->
            Fault(w, "null-handler")
      [] tag > Kind_MultiPayloadEnumGeneric -> Fault(w, "table-overrun")
      [] OTHER -> Fault(w, "unmodelled-kind")
      ) : w \in {w0}} : TRUE


RECURSIVE handleRefCountsAssignWithCopy(_, _, _, _)
handleRefCountsAssignWithCopy(metadata, w0, dest, src) ==
    CHOOSE result \in {(
    LET tag == readBytes(metadata.layoutStr, w.reader, 8)
        offset == TagOffset(tag)
        w1 == IF offset # 0
              THEN memcpy(skip(w, 8), dest + w.addrOffset, src + w.addrOffset, offset)
              ELSE skip(w, 8)
        w2 == [w1 EXCEPT !.addrOffset = w.addrOffset + offset]
    IN  IF w.fault # "none" THEN w
        ELSE IF TagKind(tag) = 0 THEN w2
        ELSE handleRefCountsAssignWithCopy(
                 metadata, assignWithCopyTable(TagKind(tag), metadata, w2, dest, src),
                 dest, src)
      ) : w \in {w0}} : TRUE


\* One pass of the while (true) loop of handleRefCountsDestroy,
\* handleRefCountsInitWithCopy, handleRefCountsInitWithTake or
\* handleRefCountsAssignWithCopy: the tag word is read, the bytes before the
\* field are copied (not by destroy), and the handler of the kind runs.
Iteration(entry, metadata, w, dest, src) ==
    CHOOSE result \in {(
    CHOOSE result \in {(
    CHOOSE result \in {(
    CHOOSE result \in {(
        IF w.fault # "none" THEN w
        ELSE IF TagKind(tag) = 0 THEN w2
        ELSE CASE entry = "destroy" ->
                    destroyTableBranchless(TagKind(tag), metadata, w2, dest)
               [] entry = "initWithCopy" ->
                    initWithCopyTable(TagKind(tag), metadata, w2, dest, src)
               [] entry = "initWithTake" ->
                    IF initWithTakeTableHasHandler(TagKind(tag))
                    THEN initWithTakeTable(TagKind(tag), metadata, w2, dest, src)
                    ELSE [memcpy(w2, dest + w2.addrOffset, src + w2.addrOffset, PtrSize)
                            EXCEPT !.addrOffset = w2.addrOffset + PtrSize]
               [] entry = "assignWithCopy" ->
                    assignWithCopyTable(TagKind(tag), metadata, w2, dest, src)
      ) : w2 \in {[w1 EXCEPT !.addrOffset = w.addrOffset + offset]}} : TRUE
      ) : w1 \in {
            IF entry # "destroy" /\ offset # 0
              THEN memcpy(skip(w, 8), dest + w.addrOffset, src + w.addrOffset, offset)
              ELSE skip(w, 8)}} : TRUE
      ) : offset \in {TagOffset(tag)}} : TRUE
      ) : tag \in {readBytes(metadata.layoutStr, w.reader, 8)}} : TRUE

RunLoop(fn, metadata, w, end, dest, src) ==
    CASE fn = "handleRefCountsDestroy" ->
            handleRefCountsDestroy(metadata, w, dest)
      [] fn = "handleRefCountsInitWithCopy" ->
            handleRefCountsInitWithCopy(metadata, w, dest, src)
      [] fn = "handleRefCountsInitWithTake" ->
            handleRefCountsInitWithTake(metadata, w, dest, src)
      [] fn = "handleRefCountsAssignWithCopy" ->
            handleRefCountsAssignWithCopy(metadata, w, dest, src)
      [] fn = "handleSingleRefCountDestroy" ->
            WhileSingleRefCountDestroy(metadata, w, end, dest)
      [] fn = "handleSingleRefCountInitWithCopy" ->
            WhileSingleRefCountInitWithCopy(metadata, w, end, dest, src)
      [] OTHER -> Iteration(fn, metadata, w, dest, src)

---------------------------------------------------------------------------
(* The value-witness entry points                                          *)

swift_generic_destroy(address, metadata, w) ==
    RunDestroy(
        metadata, [w EXCEPT !.reader = layoutStringHeaderSize, !.addrOffset = 0], address)

swift_generic_initWithCopy(dest, src, metadata, w) ==
    RunInitWithCopy(
        metadata, [w EXCEPT !.reader = layoutStringHeaderSize, !.addrOffset = 0], dest, src)

\* for (size_t i = 0; i < count; i++) of swift_generic_arrayDestroy, from i on
RECURSIVE ArrayDestroyFrom(_, _, _, _, _, _)
ArrayDestroyFrom(i, address, count, stride, metadata, w) ==
    IF ~(i < count) THEN w
    ELSE ArrayDestroyFrom(
             i + 1, address, count, stride, metadata,
             RunDestroy(
                 metadata,
                 [w EXCEPT !.reader = layoutStringHeaderSize, !.addrOffset = i * stride],
                 address))

\* Mutation: every element is destroyed at the address of the first one.
swift_generic_arrayDestroy_NoStride(address, count, stride, metadata, w) ==
    ArrayDestroyFrom(0, address, count, 0, metadata, w)

swift_generic_arrayDestroy(address, count, stride, metadata, w) ==
    ArrayDestroyFrom(0, address, count, stride, metadata, w)

RECURSIVE ArrayInitWithCopyFrom(_, _, _, _, _, _, _)
ArrayInitWithCopyFrom(i, dest, src, count, stride, metadata, w) ==
    IF ~(i < count) THEN w
    ELSE ArrayInitWithCopyFrom(
             i + 1, dest, src, count, stride, metadata,
             RunInitWithCopy(
                 metadata,
                 [w EXCEPT !.reader = layoutStringHeaderSize, !.addrOffset = i * stride],
                 dest, src))

swift_generic_arrayInitWithCopy(dest, src, count, stride, metadata, w) ==
    ArrayInitWithCopyFrom(0, dest, src, count, stride, metadata, w)

RECURSIVE ArrayAssignWithCopyFrom(_, _, _, _, _, _, _)
ArrayAssignWithCopyFrom(i, dest, src, count, stride, metadata, w) ==
    IF ~(i < count) THEN w
    ELSE ArrayAssignWithCopyFrom(
             i + 1, dest, src, count, stride, metadata,
             RunAssignWithCopy(
                 metadata,
                 [w EXCEPT !.reader = layoutStringHeaderSize, !.addrOffset = i * stride],
                 dest, src))

swift_generic_arrayAssignWithCopy(dest, src, count, stride, metadata, w) ==
    ArrayAssignWithCopyFrom(0, dest, src, count, stride, metadata, w)

\* sizeof(HeapObject): the metadata pointer and the reference counts.
HeapObjectSize == 2 * PtrSize

\* Mutation: the value is copied as an inline one whatever its packing.
swift_generic_initializeBufferWithCopyOfBuffer_AlwaysInline(dest, src, metadata, w) ==
    [world |-> swift_generic_initWithCopy(dest, src, metadata, w), result |-> dest]

\* The world the call leaves and the address it returns.
swift_generic_initializeBufferWithCopyOfBuffer(dest, src, metadata, w) ==
    IF metadata.isValueInline
    THEN [world |-> swift_generic_initWithCopy(dest, src, metadata, w), result |-> dest]
    ELSE [world |-> Collab(memcpy(w, dest, src, PtrSize), "swift_retain",
                           Load(w.mem, src, PtrSize), <<>>),
          result |-> N(Load(memcpy(w, dest, src, PtrSize).mem, dest, PtrSize))
                     + HeapObjectSize]

\* Mutation: the bitwise-takable fast path is not taken.
swift_generic_initWithTake_NoFastPath(dest, src, metadata, w) ==
    RunInitWithTake(
        metadata, [w EXCEPT !.reader = layoutStringHeaderSize, !.addrOffset = 0], dest, src)

swift_generic_initWithTake(dest, src, metadata, w0) ==
    CHOOSE result \in {(
    IF metadata.isBitwiseTakable
    THEN memcpy(w, dest, src, metadata.size)
    ELSE RunInitWithTake(
             metadata, [w EXCEPT !.reader = layoutStringHeaderSize, !.addrOffset = 0],
             dest, src)
      ) : w \in {w0}} : TRUE


swift_generic_assignWithCopy(dest, src, metadata, w) ==
    RunAssignWithCopy(
        metadata, [w EXCEPT !.reader = layoutStringHeaderSize, !.addrOffset = 0], dest, src)

\* Mutation: the old value of dest is not destroyed.
swift_generic_assignWithTake_NoDestroy(dest, src, metadata, w) ==
    swift_generic_initWithTake(dest, src, metadata, w)

swift_generic_assignWithTake(dest, src, metadata, w) ==
    swift_generic_initWithTake(dest, src, metadata, swift_generic_destroy(dest, metadata, w))

---------------------------------------------------------------------------
(* swift_resolve_resilientAccessors                                        *)

\* LayoutStringWriter::writeBytes at writer.offset; r is the layout string
\* being rewritten, with the fault the pass ran into.
writeBytes(r, offset, bs) ==
    IF r.fault # "none" THEN r
    ELSE IF offset + Len(bs) > Len(r.ls) THEN [r EXCEPT !.fault = "out-of-bounds"]
    ELSE [r EXCEPT !.ls = [i \in 1..Len(@) |->
                             IF i > offset /\ i <= offset + Len(bs)
                             THEN bs[i - offset] ELSE @[i]]]

\* Mutation: a rewritten instruction keeps its kind.
ResolvedKind_Unchanged(kind) == kind

\* The kind a rewritten instruction gets.
ResolvedKind(kind) ==
    CASE kind = Kind_Resilient -> Kind_Metatype
      [] kind = Kind_SinglePayloadEnumFN -> Kind_SinglePayloadEnumFNResolved
      [] kind = Kind_MultiPayloadEnumFN -> Kind_MultiPayloadEnumFNResolved

\* writer.offset = ...; writer.writeBytes(tagAndOffset); writer.writeBytes(pointer)
RewriteInstruction(r, offset, kind, size, pointer) ==
    writeBytes(writeBytes(r, offset, [i \in 1..8 |-> IF i = 8 THEN ResolvedKind(kind)
                                                     ELSE size[i]]),
               offset + 8, pointer)

\* The bytes the pass moves its reader past the tag word of the instruction
\* at pos, nested passes aside: the operands it reads and the bytes it skips.
ResolverAdvance(ls, pos) ==
    LET tag == TagKind(readBytes(ls, pos, 8))
    IN  CASE tag = Kind_Resilient -> 8
          [] tag = Kind_Metatype -> PtrSize
          [] tag = Kind_SinglePayloadEnumSimple -> (2 * 8) + (4 * PtrSize)
          [] tag = Kind_SinglePayloadEnumFN -> 8 + (2 * PtrSize)
          [] tag = Kind_SinglePayloadEnumFNResolved -> 3 * PtrSize
          [] tag = Kind_SinglePayloadEnumGeneric ->
                LET skipped == 8 + 8 + PtrSize + PtrSize + UnsignedSize
                    refCountBytes == N(readBytes(ls, pos + 8 + skipped, 8))
                IN  skipped + 8 + PtrSize + refCountBytes
          [] tag = Kind_MultiPayloadEnumFN ->
                LET numCases == N(readBytes(ls, pos + 16, 8))
                    refCountBytes == N(readBytes(ls, pos + 24, 8))
                IN  32 + (numCases * PtrSize) + refCountBytes
          [] tag = Kind_MultiPayloadEnumFNResolved ->
                LET numCases == N(readBytes(ls, pos + 16, 8))
                    refCountBytes == N(readBytes(ls, pos + 24, 8))
                IN  24 + PtrSize + (numCases * PtrSize) + refCountBytes
          [] tag = Kind_MultiPayloadEnumGeneric ->
                LET numPayloads == N(readBytes(ls, pos + 16, 8))
                    refCountBytes == N(readBytes(ls, pos + 24, 8))
                IN  24 + (PtrSize * (numPayloads + 1)) + refCountBytes
          [] OTHER -> 0

RECURSIVE ResolveWhile(_, _, _, _, _)
RECURSIVE ResolveCases(_, _, _, _, _, _, _)

\* The loop of the MultiPayloadEnumFN case: one recursive pass per payload
\* case, from case j on; table is where the payload-offset table starts.
ResolveCases(r0, casesBeginOffset, fieldCasesBeginOffset, table, fieldType, j, numCases) ==
    CHOOSE result \in {(
    IF r.fault # "none" \/ ~(j < numCases) THEN r
    ELSE IF table + (j * PtrSize) + 8 > Len(r.ls) THEN [r EXCEPT !.fault = "out-of-bounds"]
    ELSE LET caseOffset == N(readBytes(r.ls, table + (j * PtrSize), 8))
         IN  ResolveCases(
                 ResolveWhile(r, casesBeginOffset + caseOffset,
                              fieldCasesBeginOffset + caseOffset, fieldType, 0),
                 casesBeginOffset, fieldCasesBeginOffset, table, fieldType,
                 j + 1, numCases)
      ) : r \in {r0}} : TRUE


\* while (true) { ... } with the reader at offset reader of the field's
\* layout string, which starts at index fieldLayoutStr of the layout string.
ResolveWhile(r0, layoutStrOffset, fieldLayoutStr, fieldType, reader) ==
    CHOOSE result \in {(
    LET pos == fieldLayoutStr + reader
        word == readBytes(r.ls, pos, 8)
        tag == TagKind(word)
        size == LowBytes(word, 7)
        writerOffset == layoutStrOffset + reader
        fn == readRelativeFunctionPointer(r.ls, pos + 8)
        Continue(x) == ResolveWhile(x, layoutStrOffset, fieldLayoutStr, fieldType,
                                    reader + 8 + ResolverAdvance(r.ls, pos))
        Operands(n) == pos + 8 + n <= Len(r.ls)
    IN  IF r.fault # "none" THEN r
        ELSE IF ~Operands(0) THEN [r EXCEPT !.fault = "out-of-bounds"]
        ELSE CASE tag = Kind_End -> r
          [] tag = Kind_Resilient ->
                IF ~Operands(8) THEN [r EXCEPT !.fault = "out-of-bounds"]
                ELSE IF ~IsAccessor(fn) THEN [r EXCEPT !.fault = "wild-call"]
                ELSE Continue(RewriteInstruction(r, writerOffset, tag, size,
                                                 getResilientTypeMetadataValue(fn)))
          [] tag = Kind_Metatype -> Continue(r)
          [] tag = Kind_SinglePayloadEnumSimple -> Continue(r)
          [] tag = Kind_SinglePayloadEnumFN ->
                IF ~Operands(8) THEN [r EXCEPT !.fault = "out-of-bounds"]
                ELSE Continue(RewriteInstruction(r, writerOffset, tag, size, fn))
          [] tag = Kind_SinglePayloadEnumFNResolved -> Continue(r)
          [] tag = Kind_SinglePayloadEnumGeneric ->
                LET skipped == 8 + 8 + PtrSize + PtrSize + UnsignedSize
                IN  IF ~Operands(skipped + 8) THEN [r EXCEPT !.fault = "out-of-bounds"]
                    ELSE Continue(r)
          [] tag = Kind_MultiPayloadEnumFN ->
                LET numCases == N(readBytes(r.ls, pos + 16, 8))
                    table == pos + 40
                    casesBeginOffset == layoutStrOffset + (reader + 40)
                                            + (numCases * PtrSize)
                    fieldCasesBeginOffset == fieldLayoutStr + (numCases * PtrSize)
                                                 + (reader + 40)
                IN  IF ~Operands(24) THEN [r EXCEPT !.fault = "out-of-bounds"]
                    ELSE Continue(
                             ResolveCases(
                                 RewriteInstruction(r, writerOffset, tag, size, fn),
                                 casesBeginOffset, fieldCasesBeginOffset, table,
                                 fieldType, 0, numCases))
          [] tag = Kind_MultiPayloadEnumFNResolved ->
                IF ~Operands(24) THEN [r EXCEPT !.fault = "out-of-bounds"]
                ELSE Continue(r)
          [] tag = Kind_MultiPayloadEnumGeneric ->
                IF ~Operands(24) THEN [r EXCEPT !.fault = "out-of-bounds"]
                ELSE Continue(r)
          [] OTHER -> Continue(r)
      ) : r \in {r0}} : TRUE


\* r holds the bytes at layoutStr; fieldLayoutStr is the index in them at
\* which the field's instructions start.
swift_resolve_resilientAccessors(r, layoutStrOffset, fieldLayoutStr, fieldType) ==
    ResolveWhile(r, layoutStrOffset, fieldLayoutStr, fieldType, 0)

---------------------------------------------------------------------------
(* Layout strings and the values they describe                             *)

\* An instruction word: the kind in the top byte, the in-value offset below.
Tag(kind, offset) == U(offset, 7) \o <<kind>>
\* A size_t / uint64_t operand.
Word(n) == U(n, PtrSize)
\* The header of a layout string; the interpreter never reads it.
LayoutHeader == [i \in 1..layoutStringHeaderSize |-> 0]
\* byteCountsAndOffset of a SinglePayloadEnumSimple instruction.
ByteCountsAndOffset(extraPattern, xiPattern, xiOffset) ==
    U(xiOffset, 7) \o <<(64 * extraPattern) + (8 * xiPattern)>>

Fill(n, b) == [i \in 1..n |-> b]
Value(bytes, refs) == [bytes |-> bytes, refs |-> refs, live |-> TRUE]
\* Storage that holds no value (before an initialisation).
Uninitialized(n) == [bytes |-> Fill(n, 204), refs |-> <<>>, live |-> FALSE]

\* A pointer with an ABI spare bit set, and a foreign tagged pointer.
WithSpareBit(p) == OrW(p, <<0, 0, 0, 0, 0, 0, 0, 16>>)
TaggedPointer == <<5, 0, 0, 0, 0, 0, 0, 128>>

\* The words a reference field of the given kind can hold.
PointerValues(kind) ==
    {Value(Null, <<>>)}
    \cup {Value(Ptr(o), <<o>>) : o \in Objects}
    \cup (IF kind \in {Kind_NativeStrong, Kind_NativeUnowned, Kind_ObjC}
          THEN {Value(WithSpareBit(Ptr(ObjAddr(0))), <<ObjAddr(0)>>)} ELSE {})
    \cup (IF kind = Kind_ObjC THEN {Value(TaggedPointer, <<>>)} ELSE {})

\* struct { Int64; <reference of one kind>; Int32 }
OneRefLayout(kind) ==
    [name |-> <<"OneRef", kind>>,
     ls |-> LayoutHeader \o Tag(kind, 8) \o Tag(Kind_End, 4),
     size |-> 20,
     vals |-> {Value(Fill(8, 17) \o p.bytes \o Fill(4, 18), p.refs) :
                  p \in PointerValues(kind)}]

\* struct { NativeStrong; Int64; Unknown }
TwoRefsLayout ==
    [name |-> <<"TwoRefs">>,
     ls |-> LayoutHeader \o Tag(Kind_NativeStrong, 0) \o Tag(Kind_Unknown, 8)
                \o Tag(Kind_End, 0),
     size |-> 24,
     vals |-> {Value(p.bytes \o Fill(8, 19) \o q.bytes, p.refs \o q.refs) :
                  p \in PointerValues(Kind_NativeStrong),
                  q \in PointerValues(Kind_Unknown)}]

\* Optional<struct { Int64; NativeStrong }>: the empty case is the null
\* pointer (one extra inhabitant, read as 8 bytes at offset 8).
SinglePayloadXILayout ==
    [name |-> <<"SinglePayloadXI">>,
     ls |-> LayoutHeader \o Tag(Kind_SinglePayloadEnumSimple, 0)
                \o ByteCountsAndOffset(0, 4, 8) \o Word(16) \o Word(0) \o Word(1)
                \o Word(8) \o Word(16)
                \o Tag(Kind_NativeStrong, 8)
                \o Tag(Kind_End, 0),
     size |-> 16,
     vals |-> {Value(Fill(8, 21) \o Ptr(o), <<o>>) : o \in Objects}
              \cup {Value(Fill(8, 22) \o Null, <<>>)}]

\* enum { case a(NativeStrong); case b; case c }, laid out without extra
\* inhabitants: one extra tag byte after the payload, the index of the empty
\* case in the payload.
SinglePayloadExtraTagLayout ==
    [name |-> <<"SinglePayloadExtraTag">>,
     ls |-> LayoutHeader \o Tag(Kind_SinglePayloadEnumSimple, 0)
                \o ByteCountsAndOffset(1, 0, 0) \o Word(8) \o Word(0) \o Word(0)
                \o Word(8) \o Word(8)
                \o Tag(Kind_NativeStrong, 0)
                \o Tag(Kind_End, 1),
     size |-> 9,
     vals |-> {Value(Ptr(o) \o <<0>>, <<o>>) : o \in Objects}
              \cup {Value(Word(0) \o <<1>>, <<>>), Value(Word(1) \o <<1>>, <<>>)}]

\* enum { case a(NativeStrong); case b; case c; case d }: b is the null
\* pointer, c and d set the extra tag byte and keep their index in the payload.
SinglePayloadBothLayout ==
    [name |-> <<"SinglePayloadBoth">>,
     ls |-> LayoutHeader \o Tag(Kind_SinglePayloadEnumSimple, 0)
                \o ByteCountsAndOffset(1, 4, 0) \o Word(8) \o Word(0) \o Word(1)
                \o Word(8) \o Word(8)
                \o Tag(Kind_NativeStrong, 0)
                \o Tag(Kind_End, 1),
     size |-> 9,
     vals |-> {Value(Ptr(o) \o <<0>>, <<o>>) : o \in Objects}
              \cup {Value(Null \o <<0>>, <<>>),
                    Value(Word(0) \o <<1>>, <<>>),
                    Value(Word(1) \o <<1>>, <<>>)}]

\* struct { Optional<struct { Int64; NativeStrong }>; Int64; Unknown }
EnumThenRefLayout ==
    [name |-> <<"EnumThenRef">>,
     ls |-> LayoutHeader \o Tag(Kind_SinglePayloadEnumSimple, 0)
                \o ByteCountsAndOffset(0, 4, 8) \o Word(16) \o Word(0) \o Word(1)
                \o Word(8) \o Word(16)
                \o Tag(Kind_NativeStrong, 8)
                \o Tag(Kind_Unknown, 8)
                \o Tag(Kind_End, 0),
     size |-> 32,
     vals |-> {Value(e.bytes \o Fill(8, 23) \o q.bytes, e.refs \o q.refs) :
                  e \in SinglePayloadXILayout.vals,
                  q \in PointerValues(Kind_Unknown)}]

\* struct { Int64; enum { case a(NativeStrong); case b(Bridge); case c; case d } }
\* with one tag byte after the 8-byte payload area.
MultiPayloadLayout ==
    [name |-> <<"MultiPayload">>,
     ls |-> LayoutHeader \o Tag(Kind_MultiPayloadEnumGeneric, 8)
                \o Word(1) \o Word(2) \o Word(32) \o Word(9)
                \o Word(0) \o Word(16)
                \o Tag(Kind_NativeStrong, 0) \o Tag(Kind_End, 0)
                \o Tag(Kind_Bridge, 0) \o Tag(Kind_End, 0)
                \o Tag(Kind_End, 0),
     size |-> 17,
     vals |-> {Value(Fill(8, 24) \o Ptr(o) \o <<t>>, <<o>>) : o \in Objects, t \in {0, 1}}
              \cup {Value(Fill(8, 25) \o Word(i) \o <<2>>, <<>>) : i \in {0, 1}}]

Layouts ==
    {OneRefLayout(k) : k \in Kind_Error..Kind_ObjC}
    \cup {TwoRefsLayout, SinglePayloadXILayout, SinglePayloadExtraTagLayout,
          SinglePayloadBothLayout, EnumThenRefLayout, MultiPayloadLayout}

\* How many times the object o occurs in the sequence refs.
RECURSIVE Count(_, _)
Count(o, refs) ==
    IF refs = <<>> THEN 0
    ELSE (IF Head(refs) = o THEN 1 ELSE 0) + Count(o, Tail(refs))

\* The two value buffers (dest first), with guard bytes after each value.
Storage(destBytes, srcBytes) ==
    [a \in MemAddrs |->
        IF a - DestBase < Len(destBytes) THEN destBytes[a - DestBase + 1]
        ELSE IF a >= SrcBase /\ a - SrcBase < Len(srcBytes) THEN srcBytes[a - SrcBase + 1]
        ELSE 238]

---------------------------------------------------------------------------
(* The state machine: one call of one value witness                        *)

NoOutcome ==
    [addrOffset |-> 0, calls |-> <<>>, writes |-> [a \in MemAddrs |-> 0],
     retained |-> [o \in Objects |-> 0], released |-> [o \in Objects |-> 0],
     fault |-> "none", undef |-> {}, result |-> 0, reader |-> 0]

Init ==
    \E L \in Layouts :
    \E sv \in L.vals :
    \E dv \in L.vals \cup {Uninitialized(L.size)} :
    \E extra \in 0..MaxExtraRefs :
    \E takable \in BOOLEAN :
        /\ layoutStr = L.ls
        /\ meta = [size |-> L.size, isBitwiseTakable |-> takable, isValueInline |-> TRUE]
        /\ mem = Storage(dv.bytes, sv.bytes)
        /\ rc = [o \in Objects |-> Count(o, dv.refs) + Count(o, sv.refs) + extra]
        /\ args = [entry |-> "none", dest |-> 0, src |-> 0, tag |-> 0]
        /\ ghost = [layout |-> L.name,
                    destLive |-> dv.live,
                    destRefs |-> [o \in Objects |-> Count(o, dv.refs)],
                    srcRefs |-> [o \in Objects |-> Count(o, sv.refs)],
                    mem0 |-> Storage(dv.bytes, sv.bytes),
                    rc0 |-> [o \in Objects |-> Count(o, dv.refs) + Count(o, sv.refs) + extra]]
        /\ pc = "ready"
        /\ out = NoOutcome

\* The entry point returns: the world it leaves becomes the state.  The count
\* of an object used after its deallocation is whatever the allocator left.
Return(entry, dest, src, w0, result) ==
    \E w \in {w0} :
    /\ mem' = w.mem
    /\ rc' \in {[o \in Objects |-> IF o \in w.undef THEN g[o] ELSE w.rc[o]] :
                   g \in [Objects -> {0, 1}]}
    /\ out' = [addrOffset |-> w.addrOffset, calls |-> w.calls, writes |-> w.writes,
               retained |-> w.retained, released |-> w.released,
               fault |-> w.fault, undef |-> w.undef, result |-> result,
               reader |-> w.reader]
    /\ args' = [entry |-> entry, dest |-> dest, src |-> src, tag |-> 0]
    /\ pc' = "done"
    /\ UNCHANGED <<layoutStr, meta, ghost>>


\* Mutation: the driver resolves the layout string in place before it runs.
CallDestroy_ResolvesInPlace ==
    /\ pc = "ready"
    /\ ghost.destLive
    /\ \E w \in {swift_generic_destroy(DestBase, Metadata, World(0, mem, rc))} :
          /\ mem' = w.mem
          /\ rc' = w.rc
          /\ out' = [addrOffset |-> w.addrOffset, calls |-> w.calls, writes |-> w.writes,
                     retained |-> w.retained, released |-> w.released,
                     fault |-> w.fault, undef |-> w.undef, result |-> 0,
                     reader |-> w.reader]
          /\ args' = [entry |-> "destroy", dest |-> DestBase, src |-> DestBase, tag |-> 0]
          /\ pc' = "done"
          /\ layoutStr' = swift_resolve_resilientAccessors(
                              [ls |-> layoutStr, fault |-> "none"],
                              layoutStringHeaderSize, layoutStringHeaderSize, Metadata).ls
          /\ UNCHANGED <<meta, ghost>>

CallDestroy ==
    /\ pc = "ready"
    /\ ghost.destLive
    /\ Return("destroy", DestBase, DestBase,
              swift_generic_destroy(DestBase, Metadata, World(0, mem, rc)), 0)

CallInitWithCopy ==
    /\ pc = "ready"
    /\ ~ghost.destLive
    /\ Return("initWithCopy", DestBase, SrcBase,
              swift_generic_initWithCopy(DestBase, SrcBase, Metadata, World(0, mem, rc)),
              DestBase)

CallInitWithTake ==
    /\ pc = "ready"
    /\ ~ghost.destLive
    /\ Return("initWithTake", DestBase, SrcBase,
              swift_generic_initWithTake(DestBase, SrcBase, Metadata, World(0, mem, rc)),
              DestBase)

CallAssignWithCopy ==
    /\ pc = "ready"
    /\ ghost.destLive
    /\ \E src \in {SrcBase, DestBase} :
          Return("assignWithCopy", DestBase, src,
                 swift_generic_assignWithCopy(DestBase, src, Metadata, World(0, mem, rc)),
                 DestBase)

CallAssignWithTake ==
    /\ pc = "ready"
    /\ ghost.destLive
    /\ Return("assignWithTake", DestBase, SrcBase,
              swift_generic_assignWithTake(DestBase, SrcBase, Metadata, World(0, mem, rc)),
              DestBase)

Next ==
    \/ CallDestroy
    \/ CallInitWithCopy
    \/ CallInitWithTake
    \/ CallAssignWithCopy
    \/ CallAssignWithTake

Spec == Init /\ [][Next]_vars

---------------------------------------------------------------------------
(* Layout strings with relative pointers, and their resolution             *)

\* struct { Int64; <resilient type of 9 bytes>; NativeStrong }
ResilientLayout ==
    [name |-> <<"Resilient">>,
     ls |-> LayoutHeader \o Tag(Kind_Resilient, 8) \o RelativePointer(AccessorAddr(1), 24)
                \o Tag(Kind_NativeStrong, 7) \o Tag(Kind_End, 0),
     size |-> 32,
     vals |-> {Value(Fill(8, 31) \o p.bytes \o <<7>> \o Fill(7, 0) \o q.bytes,
                     p.refs \o q.refs) :
                  p \in PointerValues(Kind_Unknown),
                  q \in PointerValues(Kind_Unknown)}]

\* enum { case a(NativeStrong); case b }: the compiler-emitted getEnumTag
\* reads the tag byte after the payload.
SingleFnLayout ==
    [name |-> <<"SingleFn">>,
     ls |-> LayoutHeader \o Tag(Kind_SinglePayloadEnumFN, 0)
                \o RelativePointer(EnumTagFnAddr(8), 24) \o Word(8) \o Word(8)
                \o Tag(Kind_NativeStrong, 0)
                \o Tag(Kind_End, 1),
     size |-> 9,
     vals |-> {Value(Ptr(o) \o <<0>>, <<o>>) : o \in Objects}
              \cup {Value(Word(0) \o <<1>>, <<>>)}]

\* struct { Int64; enum { case a(NativeStrong); case b(<resilient type of 9
\* bytes>); case c; case d } } with the tag byte after the 9-byte payload area.
MultiFnLayout ==
    [name |-> <<"MultiFn">>,
     ls |-> LayoutHeader \o Tag(Kind_MultiPayloadEnumFN, 8)
                \o RelativePointer(EnumTagFnAddr(9), 24)
                \o Word(2) \o Word(40) \o Word(10)
                \o Word(0) \o Word(16)
                \o Tag(Kind_NativeStrong, 0) \o Tag(Kind_End, 0)
                \o Tag(Kind_Resilient, 0) \o RelativePointer(AccessorAddr(1), 96)
                \o Tag(Kind_End, 0)
                \o Tag(Kind_End, 0),
     size |-> 18,
     vals |-> {Value(Fill(8, 32) \o Ptr(o) \o <<0, t>>, <<o>>) :
                  o \in Objects, t \in {0, 1}}
              \cup {Value(Fill(8, 33) \o Word(0) \o <<0, t>>, <<>>) : t \in {2, 3}}]

\* struct { E<T>; Optional<struct { NativeStrong; Int64; UInt8; Bool }> }
\* where E<T> is a generic single-payload enum instantiated at run time over
\* a type of 9 bytes, with its empty case in the extra inhabitants of the
\* type's last byte, and the Optional has its empty case in those of the Bool.
GenericThenOptionalLayout ==
    [name |-> <<"GenericThenOptional">>,
     ls |-> LayoutHeader \o Tag(Kind_SinglePayloadEnumGeneric, 0)
                \o ByteCountsAndOffset(0, 0, 8) \o Word(9) \o Word(1)
                \o U(1, UnsignedSize) \o Word(16) \o Word(9)
                \o Tag(Kind_Metatype, 0) \o U(TypeAddr(1), PtrSize)
                \o Tag(Kind_SinglePayloadEnumSimple, 7)
                \o ByteCountsAndOffset(0, 1, 17) \o Word(18) \o Word(2) \o Word(1)
                \o Word(8) \o Word(8)
                \o Tag(Kind_NativeStrong, 0)
                \o Tag(Kind_End, 10),
     size |-> 34,
     vals |-> {Value(e.bytes \o Fill(7, 0) \o f.bytes, e.refs \o f.refs) :
                  e \in {Value(Ptr(o) \o <<3>>, <<o>>) : o \in Objects}
                         \cup {Value(Word(0) \o <<254>>, <<>>)},
                  f \in {Value(Ptr(o) \o Fill(8, 41) \o <<5, 1>>, <<o>>) : o \in Objects}
                         \cup {Value(Word(0) \o Fill(8, 41) \o <<5, 2>>, <<>>)}}]

\* enum { case a(NativeStrong); case b(<resilient type of 9 bytes>); case c;
\* case d } instantiated at run time: the tag is the byte after the payload.
MultiGenericResilientLayout ==
    [name |-> <<"MultiGenericResilient">>,
     ls |-> LayoutHeader \o Tag(Kind_MultiPayloadEnumGeneric, 8)
                \o Word(1) \o Word(2) \o Word(40) \o Word(10)
                \o Word(0) \o Word(16)
                \o Tag(Kind_NativeStrong, 0) \o Tag(Kind_End, 0)
                \o Tag(Kind_Resilient, 0) \o RelativePointer(AccessorAddr(1), 96)
                \o Tag(Kind_End, 0)
                \o Tag(Kind_End, 0),
     size |-> 18,
     vals |-> {Value(Fill(8, 34) \o Ptr(o) \o <<0, t>>, <<o>>) :
                  o \in Objects, t \in {0, 1}}
              \cup {Value(Fill(8, 35) \o Word(0) \o <<0, t>>, <<>>) : t \in {2, 3}}]

ResolvableLayouts ==
    {ResilientLayout, SingleFnLayout, MultiFnLayout, GenericThenOptionalLayout,
     MultiPayloadLayout, TwoRefsLayout, MultiGenericResilientLayout}

\* How often the model runs the resolution pass on one layout string.
MaxResolves == 2

InitResolve ==
    \E L \in ResolvableLayouts :
    \E sv \in L.vals :
    \E dv \in L.vals \cup {Uninitialized(L.size)} :
    \E takable \in BOOLEAN :
        /\ layoutStr = L.ls
        /\ meta = [size |-> L.size, isBitwiseTakable |-> takable, isValueInline |-> TRUE]
        /\ mem = Storage(dv.bytes, sv.bytes)
        /\ rc = [o \in Objects |-> Count(o, dv.refs) + Count(o, sv.refs)]
        /\ args = [entry |-> "none", dest |-> 0, src |-> 0, tag |-> 0]
        /\ ghost = [layout |-> L.name,
                    destLive |-> dv.live,
                    destRefs |-> [o \in Objects |-> Count(o, dv.refs)],
                    srcRefs |-> [o \in Objects |-> Count(o, sv.refs)],
                    mem0 |-> Storage(dv.bytes, sv.bytes),
                    rc0 |-> [o \in Objects |-> Count(o, dv.refs) + Count(o, sv.refs)],
                    ls0 |-> L.ls, ls1 |-> L.ls, resolved |-> 0, resolveFault |-> "none"]
        /\ pc = "ready"
        /\ out = NoOutcome

\* The metadata system resolves the layout string of the type in place,
\* before or between the calls of its value witnesses.
CallResolve ==
    /\ pc = "ready"
    /\ ghost.resolved < MaxResolves
    /\ LET r == swift_resolve_resilientAccessors(
                     [ls |-> layoutStr, fault |-> ghost.resolveFault],
                     layoutStringHeaderSize, layoutStringHeaderSize, Metadata)
       IN  /\ layoutStr' = r.ls
           /\ ghost' = [ghost EXCEPT !.resolved = @ + 1,
                                     !.ls1 = IF ghost.resolved = 0 THEN r.ls ELSE @,
                                     !.resolveFault = r.fault]
    /\ UNCHANGED <<meta, mem, rc, args, pc, out>>

NextResolve ==
    \/ CallResolve
    \/ CallDestroy
    \/ CallInitWithCopy
    \/ CallInitWithTake
    \/ CallAssignWithCopy
    \/ CallAssignWithTake

SpecResolve == InitResolve /\ [][NextResolve]_vars

---------------------------------------------------------------------------
(* The array variants of the value witnesses                               *)

\* The largest number of elements of a modelled array.
MaxCount == 2

\* The strides an array of values of the given size can have.
Strides(size) == {8 * ((size + 7) \div 8), 8 * ((size + 7) \div 8) + 8}

\* The bytes between two elements of an array.
Padding(n) == Fill(n, 170)

\* The array of the given elements, stride bytes apart (the last element has
\* no padding after it).
RECURSIVE ArrayOf(_, _)
ArrayOf(elems, stride) ==
    IF Len(elems) = 0 THEN [bytes |-> <<>>, refs |-> <<>>]
    ELSE IF Len(elems) = 1 THEN [bytes |-> elems[1].bytes, refs |-> elems[1].refs]
    ELSE [bytes |-> elems[1].bytes \o Padding(stride - Len(elems[1].bytes))
                        \o ArrayOf(Tail(elems), stride).bytes,
          refs |-> elems[1].refs \o ArrayOf(Tail(elems), stride).refs]

Reversed(elems) == [i \in 1..Len(elems) |-> elems[Len(elems) + 1 - i]]

ArrayLayouts ==
    {SinglePayloadExtraTagLayout, SinglePayloadXILayout, SingleFnLayout,
     MultiPayloadLayout, OneRefLayout(Kind_NativeWeak)}

InitArray ==
    \E L \in ArrayLayouts :
    \E n \in 0..MaxCount :
    \E stride \in Strides(L.size) :
    \E live \in BOOLEAN :
    \E elems \in [1..n -> L.vals] :
    \E sa \in {ArrayOf(elems, stride)} :
    \E da \in {ArrayOf(IF live THEN Reversed(elems)
                        ELSE [i \in 1..n |-> Uninitialized(L.size)], stride)} :
        /\ n = 0 \/ ((n - 1) * stride) + L.size <= BufLen
        /\ layoutStr = L.ls
        /\ meta = [size |-> L.size, isBitwiseTakable |-> FALSE, isValueInline |-> TRUE]
        /\ mem = Storage(da.bytes, sa.bytes)
        /\ rc = [o \in Objects |-> Count(o, da.refs) + Count(o, sa.refs)]
        /\ args = [entry |-> "none", dest |-> 0, src |-> 0, tag |-> 0,
                   count |-> 0, stride |-> stride]
        /\ ghost = [layout |-> L.name,
                    destLive |-> live,
                    elements |-> n,
                    destRefs |-> [o \in Objects |-> Count(o, da.refs)],
                    srcRefs |-> [o \in Objects |-> Count(o, sa.refs)],
                    mem0 |-> Storage(da.bytes, sa.bytes),
                    rc0 |-> [o \in Objects |-> Count(o, da.refs) + Count(o, sa.refs)]]
        /\ pc = "ready"
        /\ out = NoOutcome

\* The array entry point returns (it has no result).
ReturnArray(entry, dest, src, count, w0) ==
    \E w \in {w0} :
    /\ mem' = w.mem
    /\ rc' \in {[o \in Objects |-> IF o \in w.undef THEN g[o] ELSE w.rc[o]] :
                   g \in [Objects -> {0, 1}]}
    /\ out' = [addrOffset |-> w.addrOffset, calls |-> w.calls, writes |-> w.writes,
               retained |-> w.retained, released |-> w.released,
               fault |-> w.fault, undef |-> w.undef, result |-> 0,
               reader |-> w.reader]
    /\ args' = [args EXCEPT !.entry = entry, !.dest = dest, !.src = src,
                            !.count = count]
    /\ pc' = "done"
    /\ UNCHANGED <<layoutStr, meta, ghost>>


CallArrayDestroy ==
    /\ pc = "ready"
    /\ ghost.destLive
    /\ \E count \in 0..ghost.elements :
          ReturnArray("arrayDestroy", DestBase, DestBase, count,
                      swift_generic_arrayDestroy(DestBase, count, args.stride, Metadata,
                                                 World(0, mem, rc)))

CallArrayInitWithCopy ==
    /\ pc = "ready"
    /\ ~ghost.destLive
    /\ \E count \in 0..ghost.elements :
          ReturnArray("arrayInitWithCopy", DestBase, SrcBase, count,
                      swift_generic_arrayInitWithCopy(DestBase, SrcBase, count, args.stride,
                                                      Metadata, World(0, mem, rc)))

CallArrayAssignWithCopy ==
    /\ pc = "ready"
    /\ ghost.destLive
    /\ \E count \in 0..ghost.elements :
          ReturnArray("arrayAssignWithCopy", DestBase, SrcBase, count,
                      swift_generic_arrayAssignWithCopy(DestBase, SrcBase, count,
                                                        args.stride, Metadata,
                                                        World(0, mem, rc)))

NextArray ==
    \/ CallArrayDestroy
    \/ CallArrayInitWithCopy
    \/ CallArrayAssignWithCopy

SpecArray == InitArray /\ [][NextArray]_vars

---------------------------------------------------------------------------
(* Value buffers: a value stored inline or in a heap box                   *)

\* sizeof(ValueBuffer): three words.
ValueBufferSize == (2 * PtrSize) + PtrSize

InitBuffer ==
    \E L \in Layouts :
    \E inline \in BOOLEAN :
    \E sv \in (IF inline THEN L.vals
                ELSE {[bytes |-> Ptr(o) \o Fill(ValueBufferSize - PtrSize, 221),
                       refs |-> <<o>>, live |-> TRUE] : o \in Objects}) :
    \E extra \in 0..MaxExtraRefs :
        /\ inline => L.size <= ValueBufferSize
        /\ layoutStr = L.ls
        /\ meta = [size |-> L.size, isBitwiseTakable |-> inline, isValueInline |-> inline]
        /\ mem = Storage(Uninitialized(ValueBufferSize).bytes, sv.bytes)
        /\ rc = [o \in Objects |-> Count(o, sv.refs) + extra]
        /\ args = [entry |-> "none", dest |-> 0, src |-> 0, tag |-> 0]
        /\ ghost = [layout |-> L.name,
                    destLive |-> FALSE,
                    destRefs |-> [o \in Objects |-> 0],
                    srcRefs |-> [o \in Objects |-> Count(o, sv.refs)],
                    mem0 |-> Storage(Uninitialized(ValueBufferSize).bytes, sv.bytes),
                    rc0 |-> [o \in Objects |-> Count(o, sv.refs) + extra]]
        /\ pc = "ready"
        /\ out = NoOutcome

BufferReturn(r) ==
    Return("initializeBufferWithCopyOfBuffer", DestBase, SrcBase, r.world, r.result)

CallInitializeBufferWithCopyOfBuffer ==
    /\ pc = "ready"
    /\ BufferReturn(swift_generic_initializeBufferWithCopyOfBuffer(
                        DestBase, SrcBase, Metadata, World(0, mem, rc)))

NextBuffer == CallInitializeBufferWithCopyOfBuffer

SpecBuffer == InitBuffer /\ [][NextBuffer]_vars

---------------------------------------------------------------------------
(* Two value witnesses running concurrently on one layout string           *)

\* The pass that starts in w is the last one: it reads the End instruction.
LoopEnds(metadata, w) ==
    w.fault # "none" \/ TagKind(readBytes(metadata.layoutStr, w.reader, 8)) = 0

Tasks == {1, 2}
ConcurrentEntries == {"destroy", "initWithCopy", "initWithTake", "assignWithCopy"}

\* Each half of a buffer holds the value of one task.
HalfLen == BufLen \div 2
TaskDest(t) == DestBase + ((t - 1) * HalfLen)
TaskSrc(t) == SrcBase + ((t - 1) * HalfLen)

\* Two adjacent references: three passes of the loop.
AdjacentRefsLayout ==
    [name |-> <<"AdjacentRefs">>,
     ls |-> LayoutHeader \o Tag(Kind_NativeStrong, 0) \o Tag(Kind_Unknown, 0)
                \o Tag(Kind_End, 0),
     size |-> 16,
     vals |-> {Value(p \o Ptr(o), (IF IsZero(p) THEN <<>> ELSE <<N(p)>>) \o <<o>>) :
                  p \in {Null, Ptr(ObjAddr(0))}, o \in Objects}]

ConcurrentLayouts ==
    {AdjacentRefsLayout, SinglePayloadExtraTagLayout, SinglePayloadXILayout,
     MultiPayloadLayout, MultiFnLayout}

\* The layout string once the metadata system resolved it.
Resolved(L) ==
    swift_resolve_resilientAccessors(
        [ls |-> L.ls, fault |-> "none"], layoutStringHeaderSize, layoutStringHeaderSize,
        [layoutStr |-> L.ls, size |-> L.size]).ls

DestLive(entry) == entry \in {"destroy", "assignWithCopy"}

\* The four values side by side: the halves of the dest buffer, then the
\* halves of the src buffer.
Halves(a, b) == a.bytes \o Fill(HalfLen - Len(a.bytes), 238) \o b.bytes

\* The state in which both calls have been made and neither has run a pass:
\* each has its own reader and addrOffset.  A live destination holds the
\* value the other task's source holds, so the tasks share objects.
InitConcurrent ==
    \E L \in ConcurrentLayouts :
    \E sv \in [Tasks -> L.vals] :
    \E entry \in [Tasks -> ConcurrentEntries] :
        LET dv == [t \in Tasks |-> IF DestLive(entry[t]) THEN sv[3 - t]
                                   ELSE Uninitialized(L.size)]
            refs == dv[1].refs \o dv[2].refs \o sv[1].refs \o sv[2].refs
            storage == Storage(Halves(dv[1], dv[2]), Halves(sv[1], sv[2]))
        IN  /\ L.size <= HalfLen
            /\ layoutStr = Resolved(L)
            /\ meta = [size |-> L.size, isBitwiseTakable |-> FALSE, isValueInline |-> TRUE]
            /\ mem = storage
            /\ rc = [o \in Objects |-> Count(o, refs)]
            /\ args = [t \in Tasks |-> [entry |-> entry[t], dest |-> TaskDest(t),
                                         src |-> IF entry[t] = "destroy" THEN TaskDest(t)
                                                 ELSE TaskSrc(t),
                                         tag |-> 0]]
            /\ ghost = [layout |-> L.name, ls0 |-> Resolved(L),
                        mem0 |-> storage, rc0 |-> [o \in Objects |-> Count(o, refs)]]
            /\ pc = [t \in Tasks |-> "running"]
            /\ out = [t \in Tasks |-> [reader |-> layoutStringHeaderSize, addrOffset |-> 0,
                                        calls |-> <<>>, cursors |-> <<>>,
                                        fault |-> "none"]]

\* Mutation: the reader and addrOffset are those of the first task, as if
\* they were static variables of the interpreter.
TaskWorld_SharedCursors(t) ==
    [World(out[1].reader, mem, rc)
        EXCEPT !.addrOffset = out[1].addrOffset, !.fault = out[t].fault]

\* The world the next pass of task t runs in: the shared storage and
\* reference counts, and the reader and addrOffset local to its call.
TaskWorld(t) ==
    [World(out[t].reader, mem, rc)
        EXCEPT !.addrOffset = out[t].addrOffset, !.fault = out[t].fault]

Advance(t, ends, w0) ==
    \E w \in {w0} :
    /\ mem' = w.mem
    /\ rc' = w.rc
    /\ out' = [out EXCEPT ![t] = [reader |-> w.reader, addrOffset |-> w.addrOffset,
                                  calls |-> @.calls \o w.calls,
                                  cursors |-> Append(@.cursors, <<w.reader, w.addrOffset>>),
                                  fault |-> w.fault]]
    /\ pc' = [pc EXCEPT ![t] = IF ends \/ w.fault # "none" THEN "done" ELSE "running"]
    /\ UNCHANGED <<layoutStr, meta, args, ghost>>


\* Task t runs one pass of its loop.
StepTask(t) ==
    /\ pc[t] = "running"
    /\ Advance(t, LoopEnds(Metadata, TaskWorld(t)),
               RunIteration(args[t].entry, Metadata, TaskWorld(t), args[t].dest, args[t].src))

NextConcurrent == \E t \in Tasks : StepTask(t)

SpecConcurrent == InitConcurrent /\ [][NextConcurrent]_vars

---------------------------------------------------------------------------
(* Enum tag queries                                                        *)

\* EnumImpl.h: the low min(size, 4) bytes at addr as an unsigned.
loadEnumElement(m, addr, size) ==
    IF size = 0 THEN U(0, UnsignedSize)
    ELSE IF size >= UnsignedSize THEN Load(m, addr, UnsignedSize)
    ELSE Cast(Load(m, addr, size), UnsignedSize)

\* EnumImpl.h: value in the low bytes of the size bytes at addr, zero above.
storeEnumElement(w, addr, value, size) ==
    IF size = 0 THEN w
    ELSE Store(w, addr, Cast(Cast(value, UnsignedSize), size))

\* What (uint8_t)(1 << (0 - 1)) can come out as: the shift is undefined.
NegativeShift == {0, 1}

\* handleSinglePayloadEnumSimpleTag: the fields it reads and hands to the
\* extra-tag handler and the XI handler of its caller.
handleSinglePayloadEnumSimpleTag(ls, reader, shifted) ==
    LET byteCountsAndOffset == peekBytes(ls, reader, 0, 8)
        extraTagBytesPattern == byteCountsAndOffset[8] \div 64
    IN  [extraTagBytesPattern |-> extraTagBytesPattern,
         xiTagBytesPattern |-> (byteCountsAndOffset[8] \div 8) % 8,
         xiTagBytesOffset |-> N(Cast(LowBytes(byteCountsAndOffset, 4), 8)),
         numExtraTagBytes |-> IF extraTagBytesPattern = 0 THEN shifted
                              ELSE ShiftPattern(extraTagBytesPattern),
         payloadSize |-> N(peekBytes(ls, reader, 8, 8)),
         zeroTagValue |-> peekBytes(ls, reader, 16, 8),
         payloadNumExtraInhabitants |-> peekBytes(ls, reader, 24, 8)]

\* The result is the tag as an unsigned, or Unreachable.
swift_enumSimple_getEnumTag(address, metadata, m, shifted) ==
    LET h == handleSinglePayloadEnumSimpleTag(
                 metadata.layoutStr, layoutStringHeaderSize + 8, shifted)
        tagBytes == readTagBytes(m, address + h.payloadSize, h.numExtraTagBytes)
        caseIndexFromExtraTagBits ==
            IF h.payloadSize >= 4 THEN U(0, UnsignedSize)
            ELSE Cast(ShlBytes(SubW(tagBytes, U(1, 8)), h.payloadSize), UnsignedSize)
        caseIndexFromValue == loadEnumElement(m, address, h.payloadSize)
        noPayloadIndex ==
            AddW(OrW(caseIndexFromExtraTagBits, caseIndexFromValue),
                 Cast(h.payloadNumExtraInhabitants, UnsignedSize))
        xiTagBytes == readTagBytes(m, address + h.xiTagBytesOffset,
                                   ShiftPattern(h.xiTagBytesPattern))
    IN  IF h.extraTagBytesPattern # 0 /\ tagBytes = Unreachable THEN Unreachable
        ELSE IF h.extraTagBytesPattern # 0 /\ ~IsZero(tagBytes)
        THEN AddW(noPayloadIndex, U(1, UnsignedSize))
        ELSE IF h.xiTagBytesPattern = 0 THEN U(0, UnsignedSize)
        ELSE IF xiTagBytes = Unreachable THEN Unreachable
        ELSE IF LtW(SubW(xiTagBytes, h.zeroTagValue), h.payloadNumExtraInhabitants)
        THEN Cast(AddW(SubW(xiTagBytes, h.zeroTagValue), U(1, 8)), UnsignedSize)
        ELSE U(0, UnsignedSize)

\* tag is an unsigned (a word of 4 bytes).
swift_enumSimple_destructiveInjectEnumTag(address, tag, metadata, w, shifted) ==
    LET h == handleSinglePayloadEnumSimpleTag(
                 metadata.layoutStr, layoutStringHeaderSize + 8, shifted)
        aboveXI == LtW(h.payloadNumExtraInhabitants, Cast(tag, 8))
        noPayloadIndex == SubW(tag, U(1, UnsignedSize))
        caseIndex == Cast(SubW(Cast(noPayloadIndex, 8), h.payloadNumExtraInhabitants),
                          UnsignedSize)
        extraTagIndex == IF h.payloadSize >= 4 THEN U(1, UnsignedSize)
                         ELSE AddW(U(1, UnsignedSize), ShrBytes(caseIndex, h.payloadSize))
        payloadIndex == IF h.payloadSize >= 4 THEN caseIndex
                        ELSE LowBytes(caseIndex, h.payloadSize)
        withPayload == IF h.payloadSize # 0
                       THEN storeEnumElement(w, address, payloadIndex, h.payloadSize)
                       ELSE w
        cleared == IF h.numExtraTagBytes # 0
                   THEN storeEnumElement(w, address + h.payloadSize, U(0, UnsignedSize),
                                         h.numExtraTagBytes)
                   ELSE w
    IN  IF h.extraTagBytesPattern # 0 /\ aboveXI
        THEN IF h.numExtraTagBytes # 0
             THEN storeEnumElement(withPayload, address + h.payloadSize, extraTagIndex,
                                   h.numExtraTagBytes)
             ELSE withPayload
        ELSE IF h.xiTagBytesPattern # 0 /\ ~aboveXI
        THEN IF IsZero(tag) THEN cleared
             ELSE storeEnumElement(
                      cleared, address + h.xiTagBytesOffset,
                      AddW(Cast(SubW(tag, U(1, UnsignedSize)), 8), h.zeroTagValue),
                      ShiftPattern(h.xiTagBytesPattern))
        ELSE w

\* The fields both multi-payload tag functions read: tagBytes, numPayloads,
\* (refCountBytes skipped), enumSize.
MultiGenericTagHeader(ls, reader) ==
    [tagBytes |-> N(peekBytes(ls, reader, 0, 8)),
     numPayloads |-> peekBytes(ls, reader, 8, 8),
     enumSize |-> N(peekBytes(ls, reader, 24, 8)),
     payloadSize |-> N(peekBytes(ls, reader, 24, 8)) - N(peekBytes(ls, reader, 0, 8))]

\* Mutation: the getter returns the tag bytes as they are, also for an
\* empty case.
swift_multiPayloadEnumGeneric_getEnumTag_RawTag(address, metadata, m) ==
    LET h == MultiGenericTagHeader(metadata.layoutStr, layoutStringHeaderSize + 8)
        tagWord == readTagBytes(m, address + h.payloadSize, h.tagBytes)
    IN  IF tagWord = Unreachable THEN Unreachable ELSE Cast(tagWord, UnsignedSize)

swift_multiPayloadEnumGeneric_getEnumTag(address, metadata, m) ==
    LET h == MultiGenericTagHeader(metadata.layoutStr, layoutStringHeaderSize + 8)
        tagWord == readTagBytes(m, address + h.payloadSize, h.tagBytes)
        enumTag == Cast(Cast(tagWord, UnsignedSize), 8)
        payloadValue == Cast(loadEnumElement(m, address, h.payloadSize), 8)
    IN  IF tagWord = Unreachable THEN Unreachable
        ELSE IF LtW(enumTag, h.numPayloads) THEN Cast(enumTag, UnsignedSize)
        ELSE IF h.payloadSize >= 4
        THEN Cast(AddW(h.numPayloads, payloadValue), UnsignedSize)
        ELSE Cast(AddW(OrW(payloadValue,
                           ShlBytes(SubW(enumTag, h.numPayloads), h.payloadSize)),
                       h.numPayloads),
                  UnsignedSize)

swift_multiPayloadEnumGeneric_destructiveInjectEnumTag(address, tag, metadata, w) ==
    LET h == MultiGenericTagHeader(metadata.layoutStr, layoutStringHeaderSize + 8)
        whichEmptyCase == Cast(SubW(Cast(tag, 8), h.numPayloads), UnsignedSize)
        whichTag == IF h.payloadSize >= 4 THEN Cast(h.numPayloads, UnsignedSize)
                    ELSE Cast(AddW(h.numPayloads,
                                   Cast(ShrBytes(whichEmptyCase, h.payloadSize), 8)),
                              UnsignedSize)
        whichPayloadValue == IF h.payloadSize >= 4 THEN whichEmptyCase
                             ELSE LowBytes(whichEmptyCase, h.payloadSize)
    IN  IF LtW(Cast(tag, 8), h.numPayloads)
        THEN storeEnumElement(w, address + h.payloadSize, tag, h.tagBytes)
        ELSE storeEnumElement(
                 storeEnumElement(w, address + h.payloadSize, whichTag, h.tagBytes),
                 address, whichPayloadValue, h.payloadSize)

\* handleSinglePayloadEnumGenericTag: the fields it reads and hands to the
\* extra-tag handler and the XI handler of its caller.
handleSinglePayloadEnumGenericTag(ls, reader, shifted) ==
    LET tagBytesAndOffset == peekBytes(ls, reader, 0, 8)
        extraTagBytesPattern == tagBytesAndOffset[8] \div 64
    IN  [extraTagBytesPattern |-> extraTagBytesPattern,
         xiTagBytesOffset |-> N(Cast(LowBytes(tagBytesAndOffset, 4), 8)),
         numExtraTagBytes |-> IF extraTagBytesPattern = 0 THEN shifted
                              ELSE ShiftPattern(extraTagBytesPattern),
         payloadSize |-> N(peekBytes(ls, reader, 8, 8)),
         xiType |-> N(peekBytes(ls, reader, 16, 8)),
         numEmptyCases |-> N(peekBytes(ls, reader, 24, UnsignedSize))]

\* Mutation: the getter does not look at the extra tag bytes.
swift_singlePayloadEnumGeneric_getEnumTag_NoExtraTag(address, metadata, m, shifted) ==
    LET h == handleSinglePayloadEnumGenericTag(
                 metadata.layoutStr, layoutStringHeaderSize + 8, shifted)
    IN  IF h.xiType # 0
        THEN vw_getEnumTagSinglePayload(h.xiType, m, address + h.xiTagBytesOffset,
                                        h.numEmptyCases)
        ELSE U(0, UnsignedSize)

\* The result is the tag as an unsigned, or Unreachable.
swift_singlePayloadEnumGeneric_getEnumTag(address, metadata, m, shifted) ==
    LET h == handleSinglePayloadEnumGenericTag(
                 metadata.layoutStr, layoutStringHeaderSize + 8, shifted)
        tagBytes == readTagBytes(m, address + h.payloadSize, h.numExtraTagBytes)
        payloadNumExtraInhabitants == U(vw_getNumExtraInhabitants(h.xiType), UnsignedSize)
        caseIndexFromExtraTagBits ==
            IF h.payloadSize >= 4 THEN U(0, UnsignedSize)
            ELSE Cast(ShlBytes(SubW(tagBytes, U(1, 8)), h.payloadSize), UnsignedSize)
        caseIndexFromValue == loadEnumElement(m, address, h.payloadSize)
        noPayloadIndex ==
            AddW(OrW(caseIndexFromExtraTagBits, caseIndexFromValue),
                 payloadNumExtraInhabitants)
    IN  IF h.extraTagBytesPattern # 0 /\ tagBytes = Unreachable THEN Unreachable
        ELSE IF h.extraTagBytesPattern # 0 /\ ~IsZero(tagBytes)
        THEN AddW(noPayloadIndex, U(1, UnsignedSize))
        ELSE IF h.xiType # 0
        THEN vw_getEnumTagSinglePayload(h.xiType, m, address + h.xiTagBytesOffset,
                                        h.numEmptyCases)
        ELSE U(0, UnsignedSize)

\* tag is an unsigned (a word of 4 bytes).
swift_singlePayloadEnumGeneric_destructiveInjectEnumTag(address, tag, metadata, w, shifted) ==
    LET h == handleSinglePayloadEnumGenericTag(
                 metadata.layoutStr, layoutStringHeaderSize + 8, shifted)
        payloadNumExtraInhabitants == U(vw_getNumExtraInhabitants(h.xiType), UnsignedSize)
        aboveXI == LtW(payloadNumExtraInhabitants, tag)
        noPayloadIndex == SubW(tag, U(1, UnsignedSize))
        caseIndex == SubW(noPayloadIndex, payloadNumExtraInhabitants)
        extraTagIndex == IF h.payloadSize >= 4 THEN U(1, UnsignedSize)
                         ELSE AddW(U(1, UnsignedSize), ShrBytes(caseIndex, h.payloadSize))
        payloadIndex == IF h.payloadSize >= 4 THEN caseIndex
                        ELSE LowBytes(caseIndex, h.payloadSize)
        withPayload == IF h.payloadSize # 0
                       THEN storeEnumElement(w, address, payloadIndex, h.payloadSize)
                       ELSE w
        cleared == IF h.numExtraTagBytes # 0
                   THEN storeEnumElement(w, address + h.payloadSize, U(0, UnsignedSize),
                                         h.numExtraTagBytes)
                   ELSE w
    IN  IF h.extraTagBytesPattern # 0 /\ aboveXI
        THEN IF h.numExtraTagBytes # 0
             THEN storeEnumElement(withPayload, address + h.payloadSize, extraTagIndex,
                                   h.numExtraTagBytes)
             ELSE withPayload
        ELSE IF ~aboveXI
        THEN IF IsZero(tag) THEN cleared
             ELSE vw_storeEnumTagSinglePayload(h.xiType, cleared,
                                               address + h.xiTagBytesOffset,
                                               N(tag), h.numEmptyCases)
        ELSE w

\* Mutation: the getter reads the first byte of the value as the tag.
swift_singletonEnum_getEnumTag_ReadsValue(address, metadata, m) ==
    Cast(Load(m, address, 1), UnsignedSize)

\* swift_singletonEnum_getEnumTag(address, metadata)
swift_singletonEnum_getEnumTag(address, metadata, m) == U(0, UnsignedSize)

\* swift_singletonEnum_destructiveInjectEnumTag(address, tag, metadata)
swift_singletonEnum_destructiveInjectEnumTag(address, tag, metadata, w) == w

---------------------------------------------------------------------------
(* The state machine of the tag queries: inject a tag, then read it back   *)

MaxTag == 4

\* A type that is one single-payload enum (simple form).
SimpleEnumLayout(extraPattern, xiPattern, xiOffset, payloadSize, zeroTagValue, xiTagValues) ==
    [name |-> <<"Simple", extraPattern, xiPattern, payloadSize>>,
     ls |-> LayoutHeader \o Tag(Kind_SinglePayloadEnumSimple, 0)
                \o ByteCountsAndOffset(extraPattern, xiPattern, xiOffset)
                \o Word(payloadSize) \o Word(zeroTagValue) \o Word(xiTagValues)
                \o Word(0) \o Word(payloadSize)
                \o Tag(Kind_End, IF extraPattern = 0 THEN 0 ELSE ShiftPattern(extraPattern)),
     size |-> payloadSize + (IF extraPattern = 0 THEN 0 ELSE ShiftPattern(extraPattern)),
     payloadSize |-> payloadSize]

\* A type that is one multi-payload enum (generic form) without references.
MultiEnumLayout(tagBytes, numPayloads, enumSize) ==
    [name |-> <<"Multi", tagBytes, numPayloads, enumSize>>,
     ls |-> LayoutHeader \o Tag(Kind_MultiPayloadEnumGeneric, 0)
                \o Word(tagBytes) \o Word(numPayloads) \o Word(0) \o Word(enumSize)
                \o Tag(Kind_End, 0),
     size |-> enumSize,
     payloadSize |-> enumSize - tagBytes]

\* A type that is one single-payload enum (generic form) without references.
GenericEnumLayout(extraPattern, xiOffset, payloadSize, xiType, numEmptyCases) ==
    [name |-> <<"Generic", extraPattern, payloadSize, xiType>>,
     ls |-> LayoutHeader \o Tag(Kind_SinglePayloadEnumGeneric, 0)
                \o ByteCountsAndOffset(extraPattern, 0, xiOffset)
                \o Word(payloadSize) \o Word(xiType) \o U(numEmptyCases, UnsignedSize)
                \o Word(0) \o Word(payloadSize)
                \o Tag(Kind_End, IF extraPattern = 0 THEN 0 ELSE ShiftPattern(extraPattern)),
     size |-> payloadSize + (IF extraPattern = 0 THEN 0 ELSE ShiftPattern(extraPattern)),
     payloadSize |-> payloadSize]

\* A type that is a singleton enum: its payload of plain bytes and nothing else.
SingletonEnumLayout(payloadSize) ==
    [name |-> <<"Singleton", payloadSize>>,
     ls |-> LayoutHeader \o Tag(Kind_End, payloadSize),
     size |-> payloadSize,
     payloadSize |-> payloadSize]

EnumLayouts ==
    {SimpleEnumLayout(0, 1, 0, 1, 2, 3),    \* 1-byte payload, inhabitants 2, 3, 4
     SimpleEnumLayout(0, 4, 0, 8, 0, 1),    \* pointer payload, null is the empty case
     SimpleEnumLayout(1, 0, 0, 2, 0, 0),    \* no inhabitants, one extra tag byte
     SimpleEnumLayout(1, 1, 0, 1, 2, 2),    \* inhabitants 2, 3 and one extra tag byte
     SimpleEnumLayout(1, 0, 0, 0, 0, 0),    \* empty payload, one extra tag byte
     SimpleEnumLayout(2, 0, 0, 4, 0, 0),    \* 4-byte payload, two extra tag bytes
     MultiEnumLayout(1, 2, 9),
     MultiEnumLayout(2, 2, 2),
     MultiEnumLayout(1, 1, 3),
     MultiEnumLayout(4, 2, 8),
     MultiEnumLayout(8, 3, 16),
     GenericEnumLayout(0, 0, 1, 2, 4),      \* 4 inhabitants, 4 empty cases
     GenericEnumLayout(1, 1, 2, 1, 6),      \* 2 inhabitants in the second byte
     GenericEnumLayout(1, 0, 2, 0, 6),      \* no XI type, one extra tag byte
     GenericEnumLayout(1, 0, 8, 1, 6),      \* 8-byte payload, one extra tag byte
     GenericEnumLayout(2, 0, 0, 0, 6),      \* empty payload, two extra tag bytes
     SingletonEnumLayout(2)}

\* The bytes the storage holds before the tag is injected.
StaleBytes == {0, 1, 2, 255}

InitEnumTag ==
    \E L \in EnumLayouts :
    \E a \in StaleBytes :
    \E b \in StaleBytes :
        /\ layoutStr = L.ls
        /\ meta = [size |-> L.size, isBitwiseTakable |-> TRUE, isValueInline |-> TRUE]
        /\ mem = Storage(Fill(L.payloadSize, a) \o Fill(L.size - L.payloadSize, b), <<>>)
        /\ rc = [o \in Objects |-> 0]
        /\ args = [entry |-> "none", dest |-> 0, src |-> 0, tag |-> 0]
        /\ ghost = [layout |-> L.name,
                    destLive |-> TRUE,
                    destRefs |-> [o \in Objects |-> 0],
                    srcRefs |-> [o \in Objects |-> 0],
                    mem0 |-> Storage(Fill(L.payloadSize, a) \o Fill(L.size - L.payloadSize, b),
                                     <<>>),
                    rc0 |-> [o \in Objects |-> 0]]
        /\ pc = "ready"
        /\ out = NoOutcome

\* The injector returns.
Injected(entry, tag, w) ==
    /\ mem' = w.mem
    /\ out' = [NoOutcome EXCEPT !.writes = w.writes, !.fault = w.fault]
    /\ args' = [entry |-> entry, dest |-> DestBase, src |-> DestBase, tag |-> tag]
    /\ pc' = "injected"
    /\ UNCHANGED <<layoutStr, meta, rc, ghost>>

\* The getter returns the tag it read.
Got(entry, result) ==
    /\ out' = [out EXCEPT !.result = IF result = Unreachable THEN Huge ELSE N(result),
                          !.fault = IF result = Unreachable THEN "unreachable" ELSE @]
    /\ args' = [args EXCEPT !.entry = entry]
    /\ pc' = "done"
    /\ UNCHANGED <<layoutStr, meta, mem, rc, ghost>>

CallEnumSimpleInject ==
    /\ pc = "ready"
    /\ ghost.layout[1] = "Simple"
    /\ \E tag \in 0..MaxTag :
       \E shifted \in NegativeShift :
          Injected("enumSimple_destructiveInjectEnumTag", tag,
                   swift_enumSimple_destructiveInjectEnumTag(
                       DestBase, U(tag, UnsignedSize), Metadata, World(0, mem, rc), shifted))

CallEnumSimpleGet ==
    /\ pc = "injected"
    /\ args.entry = "enumSimple_destructiveInjectEnumTag"
    /\ ghost.layout[1] = "Simple"
    /\ \E shifted \in NegativeShift :
          Got("enumSimple_getEnumTag",
              swift_enumSimple_getEnumTag(DestBase, Metadata, mem, shifted))

CallMultiPayloadInject ==
    /\ pc = "ready"
    /\ ghost.layout[1] = "Multi"
    /\ \E tag \in 0..MaxTag :
          Injected("multiPayloadEnumGeneric_destructiveInjectEnumTag", tag,
                   swift_multiPayloadEnumGeneric_destructiveInjectEnumTag(
                       DestBase, U(tag, UnsignedSize), Metadata, World(0, mem, rc)))

CallMultiPayloadGet ==
    /\ pc = "injected"
    /\ args.entry = "multiPayloadEnumGeneric_destructiveInjectEnumTag"
    /\ ghost.layout[1] = "Multi"
    /\ Got("multiPayloadEnumGeneric_getEnumTag",
           swift_multiPayloadEnumGeneric_getEnumTag(DestBase, Metadata, mem))

CallSinglePayloadGenericInject ==
    /\ pc = "ready"
    /\ ghost.layout[1] = "Generic"
    /\ \E tag \in 0..MaxTag :
       \E shifted \in NegativeShift :
          Injected("singlePayloadEnumGeneric_destructiveInjectEnumTag", tag,
                   swift_singlePayloadEnumGeneric_destructiveInjectEnumTag(
                       DestBase, U(tag, UnsignedSize), Metadata, World(0, mem, rc), shifted))

CallSinglePayloadGenericGet ==
    /\ pc = "injected"
    /\ args.entry = "singlePayloadEnumGeneric_destructiveInjectEnumTag"
    /\ ghost.layout[1] = "Generic"
    /\ \E shifted \in NegativeShift :
          Got("singlePayloadEnumGeneric_getEnumTag",
              swift_singlePayloadEnumGeneric_getEnumTag(DestBase, Metadata, mem, shifted))

\* The singleton functions take any value and any metadata.
CallSingletonInject ==
    /\ pc = "ready"
    /\ \E tag \in 0..MaxTag :
          Injected("singletonEnum_destructiveInjectEnumTag", tag,
                   swift_singletonEnum_destructiveInjectEnumTag(
                       DestBase, U(tag, UnsignedSize), Metadata, World(0, mem, rc)))

CallSingletonGet ==
    /\ pc \in {"ready", "injected"}
    /\ args.entry \in {"none", "singletonEnum_destructiveInjectEnumTag"}
    /\ Got("singletonEnum_getEnumTag",
           swift_singletonEnum_getEnumTag(DestBase, Metadata, mem))

NextEnumTag ==
    \/ CallEnumSimpleInject
    \/ CallEnumSimpleGet
    \/ CallMultiPayloadInject
    \/ CallMultiPayloadGet
    \/ CallSinglePayloadGenericInject
    \/ CallSinglePayloadGenericGet
    \/ CallSingletonInject
    \/ CallSingletonGet

SpecEnumTag == InitEnumTag /\ [][NextEnumTag]_vars

---------------------------------------------------------------------------
(* Properties                                                              *)

Returned(entry) == pc = "done" /\ args.entry = entry
NoRetainCall == \A i \in 1..Len(out.calls) : ~IsRetain(out.calls[i])
NoReleaseCall == \A i \in 1..Len(out.calls) : ~IsRelease(out.calls[i])
\* dest and src hold references to no common object.
DisjointReferences == \A o \in Objects : ghost.destRefs[o] = 0 \/ ghost.srcRefs[o] = 0
SimpleTagHeader == handleSinglePayloadEnumSimpleTag(layoutStr, layoutStringHeaderSize + 8, 0)

\* The bytes of the value before the injection, with the extra tag bytes
\* cleared, read as the payload case: the XI field is no extra inhabitant.
XIFieldHoldsPayload ==
    swift_enumSimple_getEnumTag(
        DestBase, Metadata,
        [a \in DOMAIN ghost.mem0 |->
            IF a >= DestBase + SimpleTagHeader.payloadSize /\ a < DestBase + meta.size
            THEN 0 ELSE ghost.mem0[a]],
        0) = U(0, UnsignedSize)

\* C1: when a top-level driver (destroy, initWithCopy, initWithTake off the
\* bitwise-takable fast path, assignWithCopy) reaches the top-level End and
\* returns, addrOffset equals the size the metadata reports, whatever enum
\* cases the values are in.
C1_CursorReachesSize ==
    (pc = "done" /\ out.fault = "none"
        /\ ~(args.entry = "initWithTake" /\ meta.isBitwiseTakable))
    => out.addrOffset = meta.size

\* An assignment between different enum cases of a struct that continues
\* after the enum has returned with the cursor at the size.
C1_Witness ==
    /\ Returned("assignWithCopy")
    /\ out.fault = "none"
    /\ ghost.layout = <<"EnumThenRef">>
    /\ args.src # args.dest
    /\ \E o \in Objects : ghost.destRefs[o] = 0 /\ ghost.srcRefs[o] = 2
    /\ out.addrOffset = meta.size

\* C2: initWithTake on a type that is not bitwise-takable issues no retain
\* and no release, and leaves every reference count as it was.
C2_TakeIssuesNoRetainNoRelease ==
    (Returned("initWithTake") /\ ~meta.isBitwiseTakable)
    => (rc = ghost.rc0 /\ NoRetainCall /\ NoReleaseCall)

\* C3: assignWithCopy(p, p) returns with every reference count and every
\* byte of p as before, also when an embedded object has count 1.
C3_SelfAssignmentIsSafe ==
    (Returned("assignWithCopy") /\ args.src = args.dest)
    => (out.fault = "none" /\ rc = ghost.rc0 /\ mem = ghost.mem0)

\* C4: after assignWithCopy(dst, src) on distinct storage, every byte of dst
\* in [0, size) equals the byte of src, for every combination of enum cases.
C4_AssignCopiesEveryByte ==
    (Returned("assignWithCopy") /\ args.src # args.dest)
    => \A i \in 0..(meta.size - 1) :
          /\ mem[DestBase + i] = ghost.mem0[SrcBase + i]
          /\ mem[SrcBase + i] = ghost.mem0[SrcBase + i]

C6_CopyRetainsEachReferenceOnce ==
    Returned("initWithCopy")
    => /\ \A o \in Objects :
             /\ out.retained[o] = ghost.srcRefs[o]
             /\ rc[o] = ghost.rc0[o] + ghost.srcRefs[o]
       /\ NoReleaseCall
       /\ out.result = args.dest

\* C7: initWithCopy(dst, src) writes every byte of dst in [0, size) exactly
\* once, and on return the byte equals the byte of src.
C7_CopyWritesEveryByteOnce ==
    Returned("initWithCopy")
    => \A i \in 0..(meta.size - 1) :
          /\ out.writes[DestBase + i] = 1
          /\ mem[DestBase + i] = ghost.mem0[SrcBase + i]

\* A copy of a multi-payload enum in a payload case: gap copy, reference
\* primitive and trailing-bytes copy together covered the value.
C7_Witness ==
    /\ Returned("initWithCopy")
    /\ ghost.layout = <<"MultiPayload">>
    /\ \E o \in Objects : ghost.srcRefs[o] = 1 /\ out.retained[o] = 1
    /\ \A i \in 0..(meta.size - 1) : out.writes[DestBase + i] = 1

\* C8: destroy(value) releases each object once per reference field that is
\* live in the value's active enum cases, issues no retain, and writes no
\* byte of the value storage.
C8_DestroyReleasesEachReferenceOnce ==
    Returned("destroy")
    => /\ \A o \in Objects : out.released[o] = ghost.destRefs[o]
       /\ NoRetainCall
       /\ mem = ghost.mem0
       /\ \A a \in MemAddrs : out.writes[a] = 0

\* C9: for every SinglePayloadEnumSimple header, value bytes v and tag t in
\* range, enumSimple_getEnumTag after enumSimple_destructiveInjectEnumTag(v, t)
\* returns t.  (For t = 0 and a header with an XI field, v is taken to hold
\* a payload: the injector of the payload case leaves the payload as it is.)
C9_SimpleTagRoundTrip ==
    (/\ Returned("enumSimple_getEnumTag")
     /\ \/ SimpleTagHeader.extraTagBytesPattern # 0
        \/ args.tag <= N(SimpleTagHeader.payloadNumExtraInhabitants)
     /\ \/ args.tag # 0
        \/ SimpleTagHeader.xiTagBytesPattern = 0
        \/ XIFieldHoldsPayload)
    => out.result = args.tag

\* C10: for every MultiPayloadEnumGeneric header, value bytes v and tag t,
\* multiPayloadEnumGeneric_getEnumTag after
\* multiPayloadEnumGeneric_destructiveInjectEnumTag(v, t) returns t.
C10_MultiPayloadTagRoundTrip ==
    Returned("multiPayloadEnumGeneric_getEnumTag") => out.result = args.tag

\* An empty case whose index is split between the tag byte and a payload
\* area of 2 bytes, injected over stale bytes and read back.
C10_Witness ==
    /\ Returned("multiPayloadEnumGeneric_getEnumTag")
    /\ ghost.layout = <<"Multi", 1, 1, 3>>
    /\ ghost.mem0[DestBase] = 255
    /\ args.tag = MaxTag
    /\ out.result = args.tag

GenericTagHeader == handleSinglePayloadEnumGenericTag(layoutStr, layoutStringHeaderSize + 8, 0)
\* The tag is one of the enum's cases: with no extra tag bytes the empty
\* cases are extra inhabitants of the XI type.
GenericTagInRange ==
    \/ GenericTagHeader.extraTagBytesPattern # 0
    \/ /\ args.tag <= vw_getNumExtraInhabitants(GenericTagHeader.xiType)
       /\ args.tag <= GenericTagHeader.numEmptyCases
\* The XI field of the value before the injection holds a payload, no extra
\* inhabitant.
GenericXIFieldHoldsPayload ==
    \/ GenericTagHeader.xiType = 0
    \/ vw_getEnumTagSinglePayload(
           GenericTagHeader.xiType, ghost.mem0,
           DestBase + GenericTagHeader.xiTagBytesOffset,
           GenericTagHeader.numEmptyCases) = U(0, UnsignedSize)

\* C11 as stated: for every generic single-payload header, every value bytes
\* v and every tag t in range, singlePayloadEnumGeneric_getEnumTag after
\* singlePayloadEnumGeneric_destructiveInjectEnumTag(v, t) returns t.
C11_GenericTagRoundTripAnyValue ==
    (Returned("singlePayloadEnumGeneric_getEnumTag") /\ GenericTagInRange)
    => out.result = args.tag

\* C11 amended: the round trip holds for every tag t >= 1 and every v, and
\* for t = 0 (the payload case, whose injection leaves the payload bytes as
\* they are) for every v whose XI field holds a payload.
C11_GenericTagRoundTrip ==
    (/\ Returned("singlePayloadEnumGeneric_getEnumTag")
     /\ GenericTagInRange
     /\ (args.tag = 0 => GenericXIFieldHoldsPayload))
    => out.result = args.tag

\* An empty case beyond the extra inhabitants, kept in the extra tag byte and
\* the payload, injected over stale bytes and read back.
C11_Witness ==
    /\ Returned("singlePayloadEnumGeneric_getEnumTag")
    /\ ghost.layout = <<"Generic", 1, 2, 1>>
    /\ ghost.mem0[DestBase] = 255
    /\ args.tag = MaxTag
    /\ out.result = args.tag

\* C12: singletonEnum_getEnumTag returns 0 for every value and metadata, and
\* singletonEnum_destructiveInjectEnumTag leaves the value bytes and the
\* layout string as they were, for every tag.
C12_SingletonTagIsZeroAndInjectIsNoOp ==
    /\ Returned("singletonEnum_getEnumTag") => out.result = 0
    /\ args.entry \in {"singletonEnum_destructiveInjectEnumTag", "singletonEnum_getEnumTag"}
       => /\ mem = ghost.mem0
          /\ \A a \in MemAddrs : out.writes[a] = 0
          /\ \E L \in EnumLayouts : L.name = ghost.layout /\ L.ls = layoutStr

\* A nonzero tag injected into a value of stale nonzero bytes, then read.
C12_Witness ==
    /\ Returned("singletonEnum_getEnumTag")
    /\ args.tag = MaxTag
    /\ mem[DestBase] = 255
    /\ ghost.layout[1] = "Simple"
    /\ out.result = 0

\* C13: when the type is bitwise-takable, initWithTake(dst, src) copies
\* exactly the bytes [0, size) from src to dst, never sets up a cursor into
\* the layout string, issues no collaborator call, and returns dst.
C13_BitwiseTakeIsMemcpy ==
    (Returned("initWithTake") /\ meta.isBitwiseTakable)
    => /\ \A a \in MemAddrs :
             IF a >= DestBase /\ a < DestBase + meta.size
             THEN out.writes[a] = 1 /\ mem[a] = ghost.mem0[SrcBase + (a - DestBase)]
             ELSE out.writes[a] = 0 /\ mem[a] = ghost.mem0[a]
       /\ out.reader = 0
       /\ out.calls = <<>>
       /\ rc = ghost.rc0
       /\ out.result = args.dest

\* A bitwise take of a value that holds a bridge reference, for which the
\* bytecode traversal would call a collaborator.
C13_Witness ==
    /\ Returned("initWithTake")
    /\ meta.isBitwiseTakable
    /\ ghost.layout = <<"OneRef", Kind_Bridge>>
    /\ \E o \in Objects : ghost.srcRefs[o] = 1
    /\ out.calls = <<>>

\* destroy(dst) run alone from the state before the call, and initWithTake
\* run alone on the memory and counts a run d of destroy left.
DestroyAlone == swift_generic_destroy(DestBase, Metadata, World(0, ghost.mem0, ghost.rc0))
TakeAfter(d) == swift_generic_initWithTake(DestBase, SrcBase, Metadata, World(0, d.mem, d.rc))
SameEffectsAsDestroyThenTake(d, t) ==
    /\ \A a \in MemAddrs : d.writes[a] = 0 /\ d.mem[a] = ghost.mem0[a]
    /\ out.calls = d.calls \o t.calls
    /\ mem = t.mem
    /\ out.writes = t.writes
    /\ \A o \in Objects : /\ out.released[o] = d.released[o] + t.released[o]
                          /\ out.retained[o] = d.retained[o] + t.retained[o]
                          /\ o \notin out.undef => rc[o] = t.rc[o]

\* C14: assignWithTake(dst, src) has the effects of destroy(dst) followed by
\* initWithTake(dst, src): the calls of destroy come first and are made
\* before any byte of dst is written, the calls and final bytes are those of
\* the two runs in that order, and dst is returned.  (A destroy whose
\* behaviour is undefined leaves nothing to compare.)
C14_AssignWithTakeIsDestroyThenTake ==
    (Returned("assignWithTake") /\ DestroyAlone.fault = "none")
    => /\ SameEffectsAsDestroyThenTake(DestroyAlone, TakeAfter(DestroyAlone))
       /\ out.result = args.dest

\* An assignWithTake that released an object of the old dst and then moved a
\* value with a reference to another object into dst.
C14_Witness ==
    /\ Returned("assignWithTake")
    /\ ~meta.isBitwiseTakable
    /\ ghost.layout = <<"TwoRefs">>
    /\ out.fault = "none"
    /\ \E o \in Objects : ghost.destRefs[o] >= 1 /\ out.released[o] >= 1
    /\ \E o \in Objects : ghost.srcRefs[o] >= 1 /\ ghost.destRefs[o] = 0
    /\ Len(out.calls) >= 1
    /\ \E i \in 0..(meta.size - 1) : mem[DestBase + i] # ghost.mem0[DestBase + i]

\* The world the entry point of this behaviour leaves when it runs over the
\* layout string ls, from the storage and the counts before the call.
DriverOver(ls) ==
    LET metadata == [Metadata EXCEPT !.layoutStr = ls]
        w == World(0, ghost.mem0, ghost.rc0)
    IN  CASE args.entry = "destroy" -> swift_generic_destroy(args.dest, metadata, w)
          [] args.entry = "initWithCopy" ->
                swift_generic_initWithCopy(args.dest, args.src, metadata, w)
          [] args.entry = "initWithTake" ->
                swift_generic_initWithTake(args.dest, args.src, metadata, w)
          [] args.entry = "assignWithCopy" ->
                swift_generic_assignWithCopy(args.dest, args.src, metadata, w)
          [] args.entry = "assignWithTake" ->
                swift_generic_assignWithTake(args.dest, args.src, metadata, w)

SameObservableEffects(w) ==
    /\ out.calls = w.calls
    /\ mem = w.mem
    /\ out.addrOffset = w.addrOffset
    /\ out.fault = w.fault

\* C15: a second run of swift_resolve_resilientAccessors, with the same
\* arguments, on the layout string the first run produced leaves every byte
\* of it as the first run left it.
C15_ResolveIsIdempotent ==
    (ghost.resolved = MaxResolves /\ ghost.resolveFault = "none")
    => layoutStr = ghost.ls1

\* The pass ran twice over a layout string whose multi-payload enum and whose
\* nested resilient field the first run rewrote.
C15_Witness ==
    /\ ghost.resolved = MaxResolves
    /\ ghost.resolveFault = "none"
    /\ ghost.layout = <<"MultiFn">>
    /\ TagKind(readBytes(ghost.ls1, 16, 8)) = Kind_MultiPayloadEnumFNResolved
    /\ TagKind(readBytes(ghost.ls1, 88, 8)) = Kind_Metatype

\* C16: a driver run over the layout string after resolution produces the
\* same collaborator calls, the same final value bytes and the same final
\* addrOffset as the same driver run over the unresolved layout string.
C16_ResolutionEquivalence ==
    (pc = "done" /\ ghost.resolved >= 1 /\ ghost.resolveFault = "none")
    => SameObservableEffects(DriverOver(ghost.ls0))

\* The world the single-value driver of the array entry point of this
\* behaviour leaves after it ran on the elements i, i + 1, ..., count - 1 in
\* turn, each at its own address.
RECURSIVE ElementByElement(_, _)
ElementByElement(i, w) ==
    IF ~(i < args.count) THEN w
    ELSE ElementByElement(
             i + 1,
             CASE args.entry = "arrayDestroy" ->
                     swift_generic_destroy(args.dest + (i * args.stride), Metadata, w)
               [] args.entry = "arrayInitWithCopy" ->
                     swift_generic_initWithCopy(args.dest + (i * args.stride),
                                                args.src + (i * args.stride), Metadata, w)
               [] args.entry = "arrayAssignWithCopy" ->
                     swift_generic_assignWithCopy(args.dest + (i * args.stride),
                                                  args.src + (i * args.stride),
                                                  Metadata, w))

SameCallsAndWrites(w) ==
    /\ out.calls = w.calls
    /\ out.writes = w.writes
    /\ mem = w.mem
    /\ out.fault = w.fault

\* The bytes of the destination array between the end of an element and the
\* start of the next one.
PaddingAddrs ==
    {a \in MemAddrs :
        /\ a >= args.dest /\ a < args.dest + (args.count * args.stride)
        /\ (a - args.dest) % args.stride >= meta.size}

\* C17: an array variant called with (count, stride) produces, for
\* i = 0..count-1 in increasing order, the collaborator calls and byte
\* writes of the single-value driver on the element at byte offset i*stride;
\* with count = 0 it has no effect; no byte between an element's size and
\* the stride is written.
C17_ArrayIsElementByElement ==
    pc = "done"
    => /\ SameCallsAndWrites(ElementByElement(0, World(0, ghost.mem0, ghost.rc0)))
       /\ \A a \in PaddingAddrs : out.writes[a] = 0
       /\ args.count = 0 => (out.calls = <<>> /\ mem = ghost.mem0)

\* Two elements with a gap between them were copied, each with a retain.
C17_Witness ==
    /\ pc = "done"
    /\ args.entry = "arrayInitWithCopy"
    /\ args.count = MaxCount
    /\ out.fault = "none"
    /\ PaddingAddrs # {}
    /\ Len(out.calls) >= 2
    /\ \E a \in MemAddrs : a >= args.dest + args.stride /\ out.writes[a] = 1

\* The box pointer the source buffer held when the call was made.
BoxPointer == Load(ghost.mem0, args.src, PtrSize)

\* C18: initializeBufferWithCopyOfBuffer on an inline value is exactly
\* initWithCopy(dest buffer, src buffer) and returns the dest buffer; on a
\* boxed value it copies one pointer word from src to dest, retains the box
\* once with swift_retain, reads no layout string, and returns the address
\* right after the heap-object header of the box.
C18_BufferCopy ==
    Returned("initializeBufferWithCopyOfBuffer")
    => IF meta.isValueInline
       THEN /\ SameCallsAndWrites(swift_generic_initWithCopy(
                    args.dest, args.src, Metadata, World(0, ghost.mem0, ghost.rc0)))
            /\ out.result = args.dest
       ELSE /\ out.calls = <<[fn |-> "swift_retain", a |-> BoxPointer, b |-> <<>>]>>
            /\ \A a \in MemAddrs :
                  out.writes[a] = IF a >= args.dest /\ a < args.dest + PtrSize THEN 1 ELSE 0
            /\ Load(mem, args.dest, PtrSize) = BoxPointer
            /\ \A a \in MemAddrs :
                  (a < args.dest \/ a >= args.dest + PtrSize) => mem[a] = ghost.mem0[a]
            /\ out.reader = 0
            /\ out.result = N(BoxPointer) + HeapObjectSize
            /\ out.fault = "none"

\* A boxed value was copied: the box has one more reference and the result
\* points into the box.
C18_Witness ==
    /\ Returned("initializeBufferWithCopyOfBuffer")
    /\ ~meta.isValueInline
    /\ N(BoxPointer) \in Objects
    /\ rc[N(BoxPointer)] = ghost.rc0[N(BoxPointer)] + 1
    /\ out.result = N(BoxPointer) + HeapObjectSize

\* The first instruction of the layout string, and the world its handler is
\* entered in once handleRefCounts has read the tag word.
EnumInstruction == readBytes(layoutStr, layoutStringHeaderSize, 8)
AtEnumInstruction ==
    [World(layoutStringHeaderSize + 8, ghost.mem0, ghost.rc0)
        EXCEPT !.addrOffset = TagOffset(EnumInstruction)]

IsMultiPayloadEnum(kind) ==
    kind \in {Kind_MultiPayloadEnumFN, Kind_MultiPayloadEnumFNResolved,
              Kind_MultiPayloadEnumGeneric}

\* The outer cursors are those of the end of the enum: the value offset is
\* the enum's start plus enumSize, the reader is right after the header, the
\* payload-offset table and the refCountBytes of nested instructions.
AtEndOfEnum(w) ==
    /\ w.addrOffset
         = TagOffset(EnumInstruction) + N(peekBytes(layoutStr, AtEnumInstruction.reader, 24, 8))
    /\ w.reader
         = AtEnumInstruction.reader + 32
           + (PtrSize * N(peekBytes(layoutStr, AtEnumInstruction.reader, 8, 8)))
           + N(peekBytes(layoutStr, AtEnumInstruction.reader, 16, 8))

\* C20: every multi-payload enum handler (FN, FNResolved, Generic; destroy,
\* copy, take, assign) leaves, for every tag value in or out of
\* [0, numPayloads), the outer addrOffset at enumStart + enumSize and the
\* outer reader right after the payload-offset table plus refCountBytes.
C20_MultiPayloadEnumRestoresCursors ==
    IsMultiPayloadEnum(TagKind(EnumInstruction))
    => /\ AtEndOfEnum(destroyTableBranchless(TagKind(EnumInstruction), Metadata,
                                             AtEnumInstruction, DestBase))
       /\ AtEndOfEnum(initWithCopyTable(TagKind(EnumInstruction), Metadata,
                                        AtEnumInstruction, DestBase, SrcBase))
       /\ AtEndOfEnum(initWithTakeTable(TagKind(EnumInstruction), Metadata,
                                        AtEnumInstruction, DestBase, SrcBase))
       /\ AtEndOfEnum(assignWithCopyTable(TagKind(EnumInstruction), Metadata,
                                          AtEnumInstruction, DestBase, SrcBase))

\* An assignment over the resolved layout string replaced a payload case,
\* whose reference was released, by a case without payload, and the driver
\* ended at the end of the enum.
C20_Witness ==
    /\ Returned("assignWithCopy")
    /\ TagKind(EnumInstruction) = Kind_MultiPayloadEnumFNResolved
    /\ out.fault = "none"
    /\ \E c \in 1..Len(out.calls) : out.calls[c].fn = "swift_release"
    /\ \A o \in Objects : ghost.srcRefs[o] = 0
    /\ out.addrOffset = meta.size

\* The run of a task on its own from the world w: the world it ends in and
\* the cursors after each pass.
AloneLast(w, cursors) ==
    [world |-> w, cursors |-> Append(cursors, <<w.reader, w.addrOffset>>)]

RECURSIVE AloneNext(_, _, _)

RECURSIVE AloneFrom(_, _, _)
AloneFrom(t, w, cursors) ==
    IF w.fault # "none" THEN [world |-> w, cursors |-> cursors]
    ELSE IF LoopEnds(Metadata, w)
    THEN AloneLast(RunIteration(args[t].entry, Metadata, w, args[t].dest, args[t].src),
                   cursors)
    ELSE AloneNext(t, RunIteration(args[t].entry, Metadata, w, args[t].dest, args[t].src),
                   cursors)

AloneNext(t, w, cursors) == AloneFrom(t, w, Append(cursors, <<w.reader, w.addrOffset>>))

Alone(t) ==
    AloneFrom(t, [World(layoutStringHeaderSize, ghost.mem0, ghost.rc0)
                     EXCEPT !.addrOffset = 0], <<>>)

\* The entry point of task t as one call in the initial state.
DriverAlone(t) ==
    CASE args[t].entry = "destroy" ->
            swift_generic_destroy(args[t].dest, Metadata, World(0, ghost.mem0, ghost.rc0))
      [] args[t].entry = "initWithCopy" ->
            swift_generic_initWithCopy(args[t].dest, args[t].src, Metadata,
                                       World(0, ghost.mem0, ghost.rc0))
      [] args[t].entry = "initWithTake" ->
            swift_generic_initWithTake(args[t].dest, args[t].src, Metadata,
                                       World(0, ghost.mem0, ghost.rc0))
      [] args[t].entry = "assignWithCopy" ->
            swift_generic_assignWithCopy(args[t].dest, args[t].src, Metadata,
                                         World(0, ghost.mem0, ghost.rc0))

IsPrefix(s, t) == Len(s) <= Len(t) /\ \A i \in 1..Len(s) : s[i] = t[i]

\* What task t did so far is what it does alone, and once it is done it
\* did all of it and its values hold the bytes they hold after a run alone.
AsAlone(t, alone, driver) ==
    /\ IsPrefix(out[t].cursors, alone.cursors)
    /\ IsPrefix(out[t].calls, alone.world.calls)
    /\ pc[t] = "done"
       => /\ alone.world.calls = driver.calls
          /\ out[t].cursors = alone.cursors
          /\ out[t].calls = alone.world.calls
          /\ out[t].fault = alone.world.fault
          /\ Load(mem, args[t].dest, meta.size) = Load(driver.mem, args[t].dest, meta.size)
          /\ Load(mem, args[t].src, meta.size) = Load(driver.mem, args[t].src, meta.size)

\* C19: two drivers running concurrently on distinct values over one resolved
\* layout string each produce, under every interleaving, the cursor
\* sequence, the collaborator calls and the final bytes they produce when
\* run alone, and the layout string is not written.
C19_ConcurrentAsAlone ==
    /\ \A t \in Tasks : AsAlone(t, Alone(t), DriverAlone(t))
    /\ layoutStr = ghost.ls0

\* Both tasks are done after their passes interleaved: the second started
\* before the first finished, and both made collaborator calls.
C19_Witness ==
    /\ \A t \in Tasks : pc[t] = "done" /\ out[t].fault = "none" /\ Len(out[t].calls) >= 2
    /\ args[1].entry = "assignWithCopy"
    /\ args[2].entry = "destroy"
    /\ TagKind(readBytes(layoutStr, layoutStringHeaderSize, 8))
         = Kind_MultiPayloadEnumFNResolved

IsSinglePayloadEnum(kind) ==
    kind \in {Kind_SinglePayloadEnumSimple, Kind_SinglePayloadEnumFN,
              Kind_SinglePayloadEnumFNResolved, Kind_SinglePayloadEnumGeneric}

\* refCountBytes, skip and the size of the header of the single-payload enum
\* that is the first instruction.
SinglePayloadHeader ==
    CASE TagKind(EnumInstruction) = Kind_SinglePayloadEnumSimple ->
            SimpleHeader(layoutStr, AtEnumInstruction.reader)
      [] TagKind(EnumInstruction) = Kind_SinglePayloadEnumGeneric ->
            SingleGenericHeader(layoutStr, AtEnumInstruction.reader)
      [] OTHER -> SingleFnHeader(layoutStr, AtEnumInstruction.reader)

\* The tag of the enum value at the start of dest, as the enum's own
\* getEnumTag witness reports it: 0 is the payload case.
SinglePayloadTag ==
    CASE TagKind(EnumInstruction) = Kind_SinglePayloadEnumSimple ->
            swift_enumSimple_getEnumTag(DestBase, Metadata, ghost.mem0, 0)
      [] TagKind(EnumInstruction) = Kind_SinglePayloadEnumGeneric ->
            swift_singlePayloadEnumGeneric_getEnumTag(DestBase, Metadata, ghost.mem0, 0)
      [] TagKind(EnumInstruction) = Kind_SinglePayloadEnumFN ->
            getEnumTagValue(ghost.mem0,
                            readRelativeFunctionPointer(layoutStr, AtEnumInstruction.reader),
                            DestBase)
      [] OTHER ->
            getEnumTagValue(ghost.mem0, readBytes(layoutStr, AtEnumInstruction.reader, 8),
                            DestBase)

\* The handler left the cursors for the payload case (the reader at the
\* nested sub-stream, the value offset at the payload) or for an empty case
\* (refCountBytes and skip further, no reference touched).
DispatchedOnTag(w, h) ==
    IF IsZero(SinglePayloadTag)
    THEN /\ w.reader = AtEnumInstruction.reader + h.size
         /\ w.addrOffset = AtEnumInstruction.addrOffset
    ELSE /\ w.reader = AtEnumInstruction.reader + h.size + h.refCountBytes
         /\ w.addrOffset = AtEnumInstruction.addrOffset + h.skip
         /\ \A i \in 1..Len(w.calls) : ~IsRetain(w.calls[i]) /\ ~IsRelease(w.calls[i])
         /\ w.rc = ghost.rc0

\* C21: in destroy, every single-payload enum handler (Simple, FN,
\* FNResolved, Generic) dispatches on the value's tag: for tag 0 the nested
\* sub-stream is what runs next, on the payload; for any other tag no
\* reference is touched, the reader skips refCountBytes and the value offset
\* advances by skip.  This also for a Simple header with extra tag bytes and
\* no XI field.
C21_SinglePayloadDestroyDispatchesOnTag ==
    (IsSinglePayloadEnum(TagKind(EnumInstruction)) /\ ghost.destLive
        /\ TagOffset(EnumInstruction) = 0)
    => DispatchedOnTag(destroyTableBranchless(TagKind(EnumInstruction), Metadata,
                                              AtEnumInstruction, DestBase),
                       SinglePayloadHeader)

\* The header fields the multi-payload enum handlers share (numPayloads,
\* refCountBytes, enumSize are at the same place in the three headers).
FirstEnumNumPayloads == peekBytes(layoutStr, AtEnumInstruction.reader, 8, 8)
FirstEnumSize == N(peekBytes(layoutStr, AtEnumInstruction.reader, 24, 8))

\* The tag of the multi-payload enum value at the enum's start in the
\* buffer at base, as stored (Generic) or as getEnumTag reports it.
MultiPayloadTag(base) ==
    CASE TagKind(EnumInstruction) = Kind_MultiPayloadEnumGeneric ->
            readTagBytes(ghost.mem0,
                         base + AtEnumInstruction.addrOffset + FirstEnumSize
                           - N(peekBytes(layoutStr, AtEnumInstruction.reader, 0, 8)),
                         N(peekBytes(layoutStr, AtEnumInstruction.reader, 0, 8)))
      [] TagKind(EnumInstruction) = Kind_MultiPayloadEnumFN ->
            Cast(getEnumTagValue(ghost.mem0,
                                 readRelativeFunctionPointer(layoutStr, AtEnumInstruction.reader),
                                 base + AtEnumInstruction.addrOffset), 8)
      [] OTHER ->
            Cast(getEnumTagValue(ghost.mem0, readBytes(layoutStr, AtEnumInstruction.reader, 8),
                                 base + AtEnumInstruction.addrOffset), 8)

\* The world in which the sub-stream of payload k starts: the reader at the
\* place the k-th entry of the payload-offset table names, the value offset
\* at the enum's start.
AtPayload(k) ==
    [AtEnumInstruction
        EXCEPT !.reader = @ + 32 + (PtrSize * N(FirstEnumNumPayloads))
                            + N(peekBytes(layoutStr, AtEnumInstruction.reader + 32,
                                          k * PtrSize, 8))]

\* The retains and releases of a run, in order.
RECURSIVE RefCalls(_)
RefCalls(calls) ==
    IF calls = <<>> THEN <<>>
    ELSE IF IsRetain(Head(calls)) \/ IsRelease(Head(calls))
    THEN <<Head(calls)>> \o RefCalls(Tail(calls))
    ELSE RefCalls(Tail(calls))

\* The two runs issued the same retains and releases and left the same
\* reference counts.
SameReferenceEffects(w, expected) ==
    /\ RefCalls(w.calls) = RefCalls(expected.calls)
    /\ w.rc = expected.rc
    /\ w.fault = expected.fault

\* The handler's run w is that of payload k's sub-stream alone, or, for a
\* tag that names no payload, touched no reference.
RanPayloadOfTag(w, tag, expected) ==
    IF LtW(tag, FirstEnumNumPayloads)
    THEN SameReferenceEffects(w, expected)
    ELSE RefCalls(w.calls) = <<>> /\ w.rc = ghost.rc0

\* The enumSize bytes of the enum are those of src.
EnumBytesCopied(w) ==
    \A i \in 0..(FirstEnumSize - 1) :
        w.mem[DestBase + AtEnumInstruction.addrOffset + i]
          = ghost.mem0[SrcBase + AtEnumInstruction.addrOffset + i]

\* C22: in destroy and initWithCopy a multi-payload enum whose tag k names a
\* payload executes exactly the sub-stream of payload k, found through the
\* k-th table entry, from the enum's start address, and no instruction of
\* another payload; for a tag that names no payload no collaborator call is
\* made and the copy copies the enumSize bytes.
C22_MultiPayloadRunsPayloadOfTag ==
    (IsMultiPayloadEnum(TagKind(EnumInstruction)) /\ MultiPayloadTag(SrcBase) # Unreachable)
    => /\ ghost.destLive /\ MultiPayloadTag(DestBase) # Unreachable
          => RanPayloadOfTag(destroyTableBranchless(TagKind(EnumInstruction), Metadata,
                                                    AtEnumInstruction, DestBase),
                             MultiPayloadTag(DestBase),
                             RunDestroy(Metadata,
                                        AtPayload(N(MultiPayloadTag(DestBase))), DestBase))
       /\ RanPayloadOfTag(initWithCopyTable(TagKind(EnumInstruction), Metadata,
                                            AtEnumInstruction, DestBase, SrcBase),
                          MultiPayloadTag(SrcBase),
                          RunInitWithCopy(Metadata, AtPayload(N(MultiPayloadTag(SrcBase))),
                                          DestBase, SrcBase))
       /\ ~LtW(MultiPayloadTag(SrcBase), FirstEnumNumPayloads)
          => EnumBytesCopied(initWithCopyTable(TagKind(EnumInstruction), Metadata,
                                               AtEnumInstruction, DestBase, SrcBase))

\* A destroy of a multi-payload enum in its second payload case returned:
\* the payload's reference was released by the handler of the second
\* sub-stream and by no other.
C22_Witness ==
    /\ Returned("destroy")
    /\ IsMultiPayloadEnum(TagKind(EnumInstruction))
    /\ ghost.destLive
    /\ MultiPayloadTag(DestBase) = Word(1)
    /\ out.fault = "none"
    /\ \E c \in 1..Len(out.calls) : IsRelease(out.calls[c])
    /\ \A c \in 1..Len(out.calls) : out.calls[c].fn # "swift_release"

\* The word of the first instruction's field in the buffer at base, before
\* the call.
FirstFieldWord(base) == Load(ghost.mem0, base + TagOffset(EnumInstruction), PtrSize)

\* An Objective-C tagged pointer: a bit of the reserved-bits mask is set.
IsObjCTaggedPointer(word) ==
    \E i \in 1..PtrSize : AndW(word, _swift_abi_ObjCReservedBitsMask)[i] # 0

\* How many calls of the collaborator fn the run w made.
CallsTo(w, fn) == Cardinality({i \in 1..Len(w.calls) : w.calls[i].fn = fn})

AdvancedOneWord(w) == w.addrOffset = TagOffset(EnumInstruction) + PtrSize

ObjCDestroyed(w) ==
    /\ AdvancedOneWord(w)
    /\ CallsTo(w, "objc_retain") = 0
    /\ CallsTo(w, "objc_release")
         = (IF IsObjCTaggedPointer(FirstFieldWord(DestBase)) THEN 0 ELSE 1)

ObjCCopied(w) ==
    /\ AdvancedOneWord(w)
    /\ Load(w.mem, DestBase + TagOffset(EnumInstruction), PtrSize) = FirstFieldWord(SrcBase)
    /\ CallsTo(w, "objc_release") = 0
    /\ CallsTo(w, "objc_retain")
         = (IF IsObjCTaggedPointer(FirstFieldWord(SrcBase)) THEN 0 ELSE 1)

ObjCAssigned(w) ==
    /\ AdvancedOneWord(w)
    /\ Load(w.mem, DestBase + TagOffset(EnumInstruction), PtrSize) = FirstFieldWord(SrcBase)
    /\ CallsTo(w, "objc_release")
         = (IF IsObjCTaggedPointer(FirstFieldWord(DestBase)) THEN 0 ELSE 1)
    /\ CallsTo(w, "objc_retain")
         = (IF IsObjCTaggedPointer(FirstFieldWord(SrcBase)) THEN 0 ELSE 1)

\* C23: for an ObjCStrong field whose word has a bit of the reserved-bits
\* mask set, destroy issues no release and initWithCopy copies the word and
\* issues no retain; assignWithCopy decides for the old destination word and
\* for the source word independently; the value offset always advances by
\* one word.
C23_ObjCTaggedPointerIsNotCounted ==
    TagKind(EnumInstruction) = Kind_ObjC
    => /\ ghost.destLive
          => ObjCDestroyed(destroyTableBranchless(Kind_ObjC, Metadata,
                                                  AtEnumInstruction, DestBase))
       /\ ObjCCopied(initWithCopyTable(Kind_ObjC, Metadata, AtEnumInstruction,
                                       DestBase, SrcBase))
       /\ ghost.destLive
          => ObjCAssigned(assignWithCopyTable(Kind_ObjC, Metadata, AtEnumInstruction,
                                              DestBase, SrcBase))

\* An assignment returned that replaced a tagged pointer by a reference to
\* an object: the object was retained and nothing was released.
C23_Witness ==
    /\ Returned("assignWithCopy")
    /\ TagKind(EnumInstruction) = Kind_ObjC
    /\ args.src = SrcBase
    /\ IsObjCTaggedPointer(FirstFieldWord(DestBase))
    /\ \E o \in Objects : ghost.srcRefs[o] = 1
    /\ CallsTo(out, "objc_retain") = 1
    /\ CallsTo(out, "objc_release") = 0
    /\ out.fault = "none"

---------------------------------------------------------------------------
(* assignWithCopy of one reference field, statement by statement           *)

\* The kinds whose assignWithCopy handler releases and retains by itself.
AssignKinds ==
    {Kind_Error, Kind_NativeStrong, Kind_NativeUnowned, Kind_Unknown, Kind_Bridge,
     Kind_Block, Kind_ObjC, Kind_Existential}

\* The existential containers of the model: a native reference in the first
\* word of the buffer (the box, or the first word of an inline value), then
\* the type.
ExistentialValues ==
    {Value(Ptr(o) \o Fill(2 * PtrSize, 19) \o type, <<o>>) :
        o \in Objects, type \in {U(TypeAddr(1), PtrSize), BoxedType}}

AssignFieldValues(kind) ==
    IF kind = Kind_Existential THEN ExistentialValues ELSE PointerValues(kind)

\* Mutation: the one-word handlers retain the source object before they
\* release the old destination object.
AssignProgram_RetainFirst(kind, inline) ==
    CASE kind = Kind_Block -> <<"blockRelease", "blockCopy", "memcpy", "advance">>
      [] kind = Kind_Existential ->
            <<"getType", "advance">>
            \o (IF inline THEN <<"vwAssign">>
                ELSE <<"boxRelease", "boxMemcpy", "boxRetain">>)
      [] OTHER -> <<"loadDest", "loadSrc", "memcpy", "advance", "retain", "release">>

\* The statements of the assignWithCopy handler of a kind, in the order of
\* the code.
AssignProgram(kind, inline) ==
    CASE kind = Kind_Block -> <<"blockRelease", "blockCopy", "memcpy", "advance">>
      [] kind = Kind_Existential ->
            <<"getType", "advance">>
            \o (IF inline THEN <<"vwAssign">>
                ELSE <<"boxRelease", "boxMemcpy", "boxRetain">>)
      [] OTHER -> <<"loadDest", "loadSrc", "memcpy", "advance", "release", "retain">>

ReleaseFnOf(kind) ==
    CASE kind = Kind_Error -> "swift_errorRelease"
      [] kind = Kind_NativeStrong -> "swift_release"
      [] kind = Kind_NativeUnowned -> "swift_unownedRelease"
      [] kind = Kind_Unknown -> "swift_unknownObjectRelease"
      [] kind = Kind_Bridge -> "swift_bridgeObjectRelease"
      [] kind = Kind_Block -> "_Block_release"
      [] kind = Kind_ObjC -> "objc_release"
      [] OTHER -> "swift_release"

RetainFnOf(kind) ==
    CASE kind = Kind_Error -> "swift_errorRetain"
      [] kind = Kind_NativeStrong -> "swift_retain"
      [] kind = Kind_NativeUnowned -> "swift_unownedRetain"
      [] kind = Kind_Unknown -> "swift_unknownObjectRetain"
      [] kind = Kind_Bridge -> "swift_bridgeObjectRetain"
      [] kind = Kind_Block -> "_Block_copy"
      [] kind = Kind_ObjC -> "objc_retain"
      [] OTHER -> "swift_retain"

\* object &= ~_swift_abi_SwiftSpareBitsMask, in the handlers that do it.
StripSpareBits(kind, object) ==
    IF kind \in {Kind_NativeStrong, Kind_NativeUnowned, Kind_ObjC}
    THEN AndW(object, NotW(_swift_abi_SwiftSpareBitsMask))
    ELSE object

\* if (!(object & _swift_abi_ObjCReservedBitsMask)), in the ObjCStrong handler.
IsCounted(kind, object) ==
    kind # Kind_ObjC \/ IsZero(AndW(object, _swift_abi_ObjCReservedBitsMask))

\* The handler is entered once handleRefCounts has read the tag word: the
\* reader is after it and addrOffset is the field's offset.
InitAssign ==
    \E kind \in AssignKinds :
    \E dv \in AssignFieldValues(kind) :
    \E sv \in AssignFieldValues(kind) :
    \E self \in BOOLEAN :
    \E extra \in 0..MaxExtraRefs :
        LET prefix == Fill(PtrSize, 17)
            refs == IF self THEN dv.refs ELSE dv.refs \o sv.refs
            storage == Storage(prefix \o dv.bytes, prefix \o sv.bytes)
            counts == [o \in Objects |-> Count(o, refs) + extra]
        IN  /\ layoutStr = LayoutHeader \o Tag(kind, PtrSize) \o Tag(Kind_End, 0)
            /\ meta = [size |-> PtrSize + Len(dv.bytes), isBitwiseTakable |-> FALSE,
                       isValueInline |-> TRUE]
            /\ mem = storage
            /\ rc = counts
            /\ args = [entry |-> "assignWithCopy", dest |-> DestBase,
                       src |-> IF self THEN DestBase ELSE SrcBase, tag |-> 0]
            /\ ghost = [layout |-> <<"OneField", kind>>, kind |-> kind,
                        mem0 |-> storage, rc0 |-> counts]
            /\ pc = AssignProgram(kind, FALSE)[1]
            /\ out = [w |-> [World(layoutStringHeaderSize + 8, storage, counts)
                               EXCEPT !.addrOffset = PtrSize],
                      _addrOffset |-> PtrSize,
                      destObject |-> Null, srcObject |-> Null, type |-> Null,
                      step |-> 1, events |-> <<>>]

\* The statement the handler is at after the step that left the locals o.
NextStatement(o) ==
    IF o.step > Len(AssignProgram(ghost.kind, isValueInline(o.type))) THEN "done"
    ELSE AssignProgram(ghost.kind, isValueInline(o.type))[o.step]

\* One statement ran: w is the world it left, events what it did to the two
\* pointer words and which collaborator it called.
Statement(w0, destObject, srcObject, type, events) ==
    \E w \in {w0} :
    \E o \in {[out EXCEPT !.w = w, !.destObject = destObject, !.srcObject = srcObject,
                          !.type = type, !.step = @ + 1, !.events = @ \o events]} :
        /\ out' = o
        /\ mem' = w.mem
        /\ rc' = w.rc
        /\ pc' = NextStatement(o)
        /\ UNCHANGED <<layoutStr, meta, args, ghost>>

DestField == args.dest + out._addrOffset
SrcField == args.src + out._addrOffset

\* uintptr_t destObject = *(uintptr_t *)(dest + _addrOffset);
LoadDest ==
    /\ pc = "loadDest"
    /\ Statement(Rd(out.w, DestField, PtrSize), Load(mem, DestField, PtrSize),
                 out.srcObject, out.type, <<"readDest">>)

\* uintptr_t srcObject = *(uintptr_t *)(src + _addrOffset);
LoadSrc ==
    /\ pc = "loadSrc"
    /\ Statement(Rd(out.w, SrcField, PtrSize), out.destObject,
                 Load(mem, SrcField, PtrSize), out.type, <<"readSrc">>)

\* memcpy(dest + _addrOffset, &srcObject, sizeof(HeapObject*));
MemcpyWord ==
    /\ pc = "memcpy"
    /\ Statement(Store(out.w, DestField, out.srcObject), out.destObject, out.srcObject,
                 out.type, <<"writeDest">>)

\* addrOffset = _addrOffset + sizeof(HeapObject *), or the size of the
\* existential container.
AdvanceField ==
    /\ pc = "advance"
    /\ Statement([out.w EXCEPT !.addrOffset =
                     out._addrOffset
                       + (IF ghost.kind = Kind_Existential
                          THEN PtrSize * (NumWords_ValueBuffer + 1) ELSE PtrSize)],
                 out.destObject, out.srcObject, out.type, <<>>)

\* swift_release((HeapObject *)destObject) and its like.
ReleaseDest ==
    /\ pc = "release"
    /\ IF IsCounted(ghost.kind, out.destObject)
       THEN Statement(Collab(out.w, ReleaseFnOf(ghost.kind),
                             StripSpareBits(ghost.kind, out.destObject), <<>>),
                      out.destObject, out.srcObject, out.type, <<"release">>)
       ELSE Statement(out.w, out.destObject, out.srcObject, out.type, <<>>)

\* swift_retain((HeapObject *)srcObject) and its like.
RetainSrc ==
    /\ pc = "retain"
    /\ IF IsCounted(ghost.kind, out.srcObject)
       THEN Statement(Collab(out.w, RetainFnOf(ghost.kind),
                             StripSpareBits(ghost.kind, out.srcObject), <<>>),
                      out.destObject, out.srcObject, out.type, <<"retain">>)
       ELSE Statement(out.w, out.destObject, out.srcObject, out.type, <<>>)

\* _Block_release(*(void **)(dest + _addrOffset));
BlockRelease ==
    /\ pc = "blockRelease"
    /\ Statement(Collab(Rd(out.w, DestField, PtrSize), "_Block_release",
                        Load(mem, DestField, PtrSize), <<>>),
                 Load(mem, DestField, PtrSize), out.srcObject, out.type,
                 <<"readDest", "release">>)

\* auto *copy = _Block_copy(*(void **)(src + _addrOffset));
BlockCopy ==
    /\ pc = "blockCopy"
    /\ Statement(Collab(Rd(out.w, SrcField, PtrSize), "_Block_copy",
                        Load(mem, SrcField, PtrSize), <<>>),
                 out.destObject, Load(mem, SrcField, PtrSize), out.type,
                 <<"readSrc", "retain">>)

\* auto *type = getExistentialTypeMetadata((OpaqueValue*)(src + _addrOffset));
GetExistentialType ==
    /\ pc = "getType"
    /\ Statement(Rd(out.w, SrcField + (PtrSize * NumWords_ValueBuffer), PtrSize),
                 out.destObject, out.srcObject, getExistentialTypeMetadata(mem, SrcField),
                 <<>>)

\* type->vw_assignWithCopy(destObject, srcObject);
ExistentialAssignInline ==
    /\ pc = "vwAssign"
    /\ Statement(vw_assignWithCopy(out.w, out.type, DestField, SrcField),
                 out.destObject, out.srcObject, out.type, <<"vw_assignWithCopy">>)

\* swift_release(*(HeapObject**)destObject);
BoxRelease ==
    /\ pc = "boxRelease"
    /\ Statement(Collab(Rd(out.w, DestField, PtrSize), "swift_release",
                        Load(mem, DestField, PtrSize), <<>>),
                 Load(mem, DestField, PtrSize), out.srcObject, out.type,
                 <<"readDest", "release">>)

\* memcpy(destObject, srcObject, sizeof(uintptr_t));
BoxMemcpy ==
    /\ pc = "boxMemcpy"
    /\ Statement(memcpy(out.w, DestField, SrcField, PtrSize), out.destObject,
                 out.srcObject, out.type, <<"readSrc", "writeDest">>)

\* swift_retain(*(HeapObject**)srcObject);
BoxRetain ==
    /\ pc = "boxRetain"
    /\ Statement(Collab(Rd(out.w, SrcField, PtrSize), "swift_retain",
                        Load(mem, SrcField, PtrSize), <<>>),
                 out.destObject, Load(mem, SrcField, PtrSize), out.type,
                 <<"readSrc", "retain">>)

NextAssign ==
    \/ LoadDest
    \/ LoadSrc
    \/ MemcpyWord
    \/ AdvanceField
    \/ ReleaseDest
    \/ RetainSrc
    \/ BlockRelease
    \/ BlockCopy
    \/ GetExistentialType
    \/ ExistentialAssignInline
    \/ BoxRelease
    \/ BoxMemcpy
    \/ BoxRetain

SpecAssign == InitAssign /\ [][NextAssign]_vars

\* Every event b of the run so far has an event a before it.
EventBefore(a, b) ==
    \A i \in 1..Len(out.events) :
        out.events[i] = b => \E j \in 1..(i - 1) : out.events[j] = a

\* The words of the field in dest and in src when the handler was entered.
OldDestWord == Load(ghost.mem0, args.dest + PtrSize, PtrSize)
OldSrcWord == Load(ghost.mem0, args.src + PtrSize, PtrSize)

\* The handler releases and retains by itself: the field is a one-word
\* reference, or an existential container whose value is boxed.
ReleasesAndRetains ==
    ghost.kind = Kind_Existential
    => ~isValueInline(getExistentialTypeMetadata(ghost.mem0, args.src + PtrSize))

\* The handler finished: the old pointee of dest was released, that of src
\* retained, and dest holds the word of src.
AssignedInOrder ==
    /\ Load(mem, args.dest + PtrSize, PtrSize) = OldSrcWord
    /\ IsCounted(ghost.kind, OldDestWord)
       => \E i \in 1..Len(out.w.calls) :
             /\ out.w.calls[i].fn = ReleaseFnOf(ghost.kind)
             /\ out.w.calls[i].a = StripSpareBits(ghost.kind, OldDestWord)
             /\ \A j \in 1..(i - 1) : out.w.calls[j].fn # RetainFnOf(ghost.kind)
    /\ IsCounted(ghost.kind, OldSrcWord)
       => \E i \in 1..Len(out.w.calls) :
             /\ out.w.calls[i].fn = RetainFnOf(ghost.kind)
             /\ out.w.calls[i].a = StripSpareBits(ghost.kind, OldSrcWord)

\* C24: in assignWithCopy, for every one-word reference field (Error,
\* NativeStrong, Unowned, Unknown, Bridge, Block, ObjCStrong) and for a boxed
\* Existential, the release of dest's old pointee is issued before the
\* retain of src's pointee, and both pointers are read before the
\* destination word is overwritten.
C24_ReleaseBeforeRetain ==
    ReleasesAndRetains
    => /\ IsCounted(ghost.kind, OldDestWord) => EventBefore("release", "retain")
       /\ EventBefore("readDest", "writeDest")
       /\ EventBefore("readSrc", "writeDest")
       /\ pc = "done" => AssignedInOrder

\* The assignment of a boxed existential over another one finished: the box
\* of dest was released, the word copied and the box of src retained.
C24_Witness ==
    /\ pc = "done"
    /\ ghost.kind = Kind_Existential
    /\ args.src = SrcBase
    /\ out.events = <<"readDest", "release", "readSrc", "writeDest", "readSrc", "retain">>
    /\ OldDestWord # OldSrcWord
    /\ out.w.fault = "none"

\* C25: during assignWithCopy no retain is issued on an object whose count
\* an earlier release of the same call brought to zero; in particular, when
\* dest and src are the same value holding an object with count 1, the
\* count never reaches 0.
C25_NoRetainAfterLastRelease ==
    /\ out.w.undef = {}
    /\ args.src = args.dest
       => \A o \in Objects : ghost.rc0[o] = 1 => rc[o] >= 1

\* The handler's run w issued exactly one call of fn, on the pointer p.
CalledOnceOn(w, fn, p) ==
    /\ CallsTo(w, fn) = 1
    /\ \A i \in 1..Len(w.calls) : w.calls[i].fn = fn => w.calls[i].a = p

\* The world in which the copy that initWithCopy made in dest is destroyed.
AfterCopy(copied) ==
    [AtEnumInstruction EXCEPT !.mem = copied.mem, !.rc = copied.rc]

\* C26: the pointer destroy passes to block-release for a Block field is the
\* block pointer stored in the word, the value initWithCopy passes to
\* block-copy: a copy followed by the destroy of the copy issues one
\* block-copy and one block-release on the copied block.
C26_BlockReleaseGetsTheBlock ==
    TagKind(EnumInstruction) = Kind_Block
    => /\ CalledOnceOn(initWithCopyTable(Kind_Block, Metadata, AtEnumInstruction,
                                         DestBase, SrcBase),
                       "_Block_copy", FirstFieldWord(SrcBase))
       /\ CalledOnceOn(destroyTableBranchless(
                           Kind_Block, Metadata,
                           AfterCopy(initWithCopyTable(Kind_Block, Metadata,
                                                       AtEnumInstruction, DestBase, SrcBase)),
                           DestBase),
                       "_Block_release", FirstFieldWord(SrcBase))

\* The kinds whose handlers strip the spare bits of the word.
SpareBitsKinds == {Kind_NativeStrong, Kind_NativeUnowned, Kind_ObjC}

\* Every pointer the run w passed to a retain or a release has the bits of
\* the spare-bits mask cleared.
PointersAreMasked(w) ==
    \A i \in 1..Len(w.calls) :
        (IsRetain(w.calls[i]) \/ IsRelease(w.calls[i]))
        => IsZero(AndW(w.calls[i].a, _swift_abi_SwiftSpareBitsMask))

\* The word of the field in dest is the raw word of src.
RawWordWritten(w) ==
    Load(w.mem, DestBase + TagOffset(EnumInstruction), PtrSize) = FirstFieldWord(SrcBase)

\* C27: for NativeStrong, Unowned and ObjCStrong, in destroy, initWithCopy and
\* assignWithCopy, every pointer passed to a retain or a release has all bits
\* of the spare-bits mask cleared, while the word written to dest is the
\* unmasked word of src.
C27_SpareBitsAreMaskedForCalls ==
    TagKind(EnumInstruction) \in SpareBitsKinds
    => /\ ghost.destLive
          => PointersAreMasked(destroyTableBranchless(TagKind(EnumInstruction), Metadata,
                                                      AtEnumInstruction, DestBase))
       /\ PointersAreMasked(initWithCopyTable(TagKind(EnumInstruction), Metadata,
                                              AtEnumInstruction, DestBase, SrcBase))
       /\ RawWordWritten(initWithCopyTable(TagKind(EnumInstruction), Metadata,
                                           AtEnumInstruction, DestBase, SrcBase))
       /\ ghost.destLive
          => /\ PointersAreMasked(assignWithCopyTable(TagKind(EnumInstruction), Metadata,
                                                      AtEnumInstruction, DestBase, SrcBase))
             /\ RawWordWritten(assignWithCopyTable(TagKind(EnumInstruction), Metadata,
                                                   AtEnumInstruction, DestBase, SrcBase))

\* A copy of a native reference with a spare bit set returned: the object
\* was retained through the stripped pointer and dest holds the raw word.
C27_Witness ==
    /\ Returned("initWithCopy")
    /\ TagKind(EnumInstruction) = Kind_NativeStrong
    /\ FirstFieldWord(SrcBase) = WithSpareBit(Ptr(ObjAddr(0)))
    /\ FirstFieldWord(SrcBase) # Ptr(ObjAddr(0))
    /\ \E i \in 1..Len(out.calls) :
          out.calls[i].fn = "swift_retain" /\ out.calls[i].a = Ptr(ObjAddr(0))
    /\ Load(mem, DestBase + TagOffset(EnumInstruction), PtrSize) = FirstFieldWord(SrcBase)
    /\ out.fault = "none"

\* The bytes of the layout string the driver's handler of the first
\* instruction moved the reader, tag word aside.
DriverConsumed(w) == w.reader - AtEnumInstruction.reader

\* What the handler of the first instruction consumes of the layout string
\* as the pass has to follow it: the header of a single-payload enum whose
\* sub-stream the pass walks through (Simple, FN, FNResolved), the header and
\* the refCountBytes of nested instructions for SinglePayloadEnumGeneric,
\* and for every other kind what the handler consumed (w is its run).
OperandsOfDriver(w) ==
    CASE TagKind(EnumInstruction) \in {Kind_SinglePayloadEnumSimple, Kind_SinglePayloadEnumFN,
                                       Kind_SinglePayloadEnumFNResolved} ->
            SinglePayloadHeader.size
      [] TagKind(EnumInstruction) = Kind_SinglePayloadEnumGeneric ->
            SinglePayloadHeader.size + SinglePayloadHeader.refCountBytes
      [] OTHER -> DriverConsumed(w)

\* The handler of a single-payload enum stops after its header (payload
\* case) or after the nested instructions as well (empty case).
ConsumedHeaderOrAll(w) ==
    IsSinglePayloadEnum(TagKind(EnumInstruction))
    => DriverConsumed(w) \in {SinglePayloadHeader.size,
                              SinglePayloadHeader.size + SinglePayloadHeader.refCountBytes}

\* C28: for every instruction kind swift_resolve_resilientAccessors advances
\* its reader over the operands by exactly the bytes the drivers' handler
\* consumes; for SinglePayloadEnumGeneric it reads refCountBytes from the
\* field the driver reads it from.
C28_ResolverAdvancesAsDrivers ==
    /\ ConsumedHeaderOrAll(initWithCopyTable(TagKind(EnumInstruction), Metadata,
                                             AtEnumInstruction, DestBase, SrcBase))
    /\ ResolverAdvance(layoutStr, layoutStringHeaderSize)
         = OperandsOfDriver(initWithCopyTable(TagKind(EnumInstruction), Metadata,
                                              AtEnumInstruction, DestBase, SrcBase))

\* The kinds the pass rewrites.
UnresolvedKinds == {Kind_Resilient, Kind_SinglePayloadEnumFN, Kind_MultiPayloadEnumFN}

\* The bytes between the tag word of an instruction and the next instruction
\* of its stream, as the drivers' handlers read them: a pointer for Metatype
\* and Resilient, the header of a single-payload enum (its sub-stream is the
\* next instructions of the stream), and header, payload-offset table and
\* sub-streams of a multi-payload enum.
OperandBytes(ls, pos) ==
    LET kind == TagKind(readBytes(ls, pos, 8))
    IN  CASE kind \in {Kind_Metatype, Kind_Resilient} -> PtrSize
          [] kind = Kind_SinglePayloadEnumSimple -> SimpleHeader(ls, pos + 8).size
          [] kind \in {Kind_SinglePayloadEnumFN, Kind_SinglePayloadEnumFNResolved} ->
                SingleFnHeader(ls, pos + 8).size
          [] kind = Kind_SinglePayloadEnumGeneric -> SingleGenericHeader(ls, pos + 8).size
          [] IsMultiPayloadEnum(kind) ->
                MultiFnHeader(ls, pos + 8).size
                  + (PtrSize * N(MultiFnHeader(ls, pos + 8).numPayloads))
                  + MultiFnHeader(ls, pos + 8).refCountBytes
          [] OTHER -> 0

\* Where the instructions of the stream that starts at pos are, up to its
\* End, with those of the payload sub-streams of its multi-payload enums.
RECURSIVE InstructionsOfStream(_, _)
RECURSIVE InstructionsOfPayloads(_, _, _)
InstructionsOfPayloads(ls, pos, k) ==
    IF k = 0 THEN {}
    ELSE InstructionsOfStream(
             ls, pos + 8 + 32 + (PtrSize * N(MultiFnHeader(ls, pos + 8).numPayloads))
                   + N(peekBytes(ls, pos + 8 + 32, (k - 1) * PtrSize, 8)))
         \cup InstructionsOfPayloads(ls, pos, k - 1)

InstructionsOfStream(ls, pos) ==
    IF pos + 8 > Len(ls) \/ TagKind(readBytes(ls, pos, 8)) = Kind_End THEN {}
    ELSE {pos}
         \cup (IF IsMultiPayloadEnum(TagKind(readBytes(ls, pos, 8)))
               THEN InstructionsOfPayloads(ls, pos, N(MultiFnHeader(ls, pos + 8).numPayloads))
               ELSE {})
         \cup InstructionsOfStream(ls, pos + 8 + OperandBytes(ls, pos))

\* The instructions of the layout string ls that the pass is to rewrite.
UnresolvedInstructions(ls) ==
    {pos \in InstructionsOfStream(ls, layoutStringHeaderSize) :
        TagKind(readBytes(ls, pos, 8)) \in UnresolvedKinds}

\* C29: after swift_resolve_resilientAccessors ran on a well-formed layout
\* string no Resilient, SinglePayloadEnumFN or MultiPayloadEnumFN
\* instruction remains in it: not at top level, not in the sub-stream of a
\* single-payload enum, not in a payload sub-stream of a multi-payload enum.
C29_NothingUnresolvedRemains ==
    (ghost.resolved >= 1 /\ ghost.resolveFault = "none")
    => UnresolvedInstructions(layoutStr) = {}

\* The byte at index i of the layout string is the kind byte of the tag
\* word, or a byte of the pointer-sized operand, of the instruction at pos.
IsKindOrPointerByte(i, pos) == i = pos + 8 \/ (i > pos + 8 /\ i <= pos + 8 + PtrSize)

\* C30: swift_resolve_resilientAccessors changes, of each Resilient,
\* SinglePayloadEnumFN and MultiPayloadEnumFN instruction, only the kind byte
\* of the tag word and the pointer-sized operand after it (the low 56 bits
\* of the tag word are kept, the instruction keeps its size) and no other
\* byte of the layout string.
C30_ResolveRewritesOnlyKindAndPointer ==
    (ghost.resolved >= 1 /\ ghost.resolveFault = "none")
    => /\ Len(layoutStr) = Len(ghost.ls0)
       /\ \A i \in 1..Len(ghost.ls0) :
             layoutStr[i] # ghost.ls0[i]
             => \E pos \in UnresolvedInstructions(ghost.ls0) : IsKindOrPointerByte(i, pos)
       /\ \A pos \in UnresolvedInstructions(ghost.ls0) :
             LowBytes(readBytes(layoutStr, pos, 8), 7)
               = LowBytes(readBytes(ghost.ls0, pos, 8), 7)

OnPayloadPath(w) ==
    /\ w.reader = AtEnumInstruction.reader + SimpleHeader(layoutStr, AtEnumInstruction.reader).size
    /\ w.addrOffset = AtEnumInstruction.addrOffset

\* How each reader of the tag classifies the enum value at base: the destroy,
\* copy and take flavours of singlePayloadEnumSimpleBranchless, the assign
\* handler (the value as both source and destination), and
\* swift_enumSimple_getEnumTag.
SimpleReadersOfTag(base) ==
    <<OnPayloadPath(destroyTableBranchless(Kind_SinglePayloadEnumSimple, Metadata, AtEnumInstruction, base)),
      OnPayloadPath(initWithCopyTable(Kind_SinglePayloadEnumSimple, Metadata, AtEnumInstruction, DestBase, base)),
      OnPayloadPath(initWithTakeTable(Kind_SinglePayloadEnumSimple, Metadata, AtEnumInstruction, DestBase, base)),
      OnPayloadPath(singlePayloadEnumSimpleAssignWithCopy(Metadata, AtEnumInstruction, base, base)),
      IsZero(swift_enumSimple_getEnumTag(base, Metadata, ghost.mem0, 0))>>

\* C32: for a SinglePayloadEnumSimple header and a value of it, the destroy
\* handler, the copy and take handlers, the assignWithCopy handler and
\* enumSimple_getEnumTag agree on whether the value is the payload case: all
\* of them say so or none does.  This also for a header with extra tag bytes
\* and no XI field.
C32_SimpleTagReadersAgree ==
    (TagKind(EnumInstruction) = Kind_SinglePayloadEnumSimple /\ TagOffset(EnumInstruction) = 0)
    => \A i, j \in 1..5 : SimpleReadersOfTag(SrcBase)[i] = SimpleReadersOfTag(SrcBase)[j]

\* The types recorded in the existential containers of dest and of src when
\* the handler was entered.
OldDestType == getExistentialTypeMetadata(ghost.mem0, args.dest + PtrSize)
OldSrcType == getExistentialTypeMetadata(ghost.mem0, args.src + PtrSize)

\* A value witness was called with the container of dest as its destination.
WitnessCalledOnDest ==
    \E i \in 1..Len(out.w.calls) :
        /\ out.w.calls[i].fn \in {"vw_destroy", "vw_assignWithCopy"}
        /\ out.w.calls[i].a = Ptr(args.dest + PtrSize)

\* A value witness was called with the container of src as its source.
WitnessCalledOnSrc ==
    \E i \in 1..Len(out.w.calls) :
        /\ out.w.calls[i].fn \in {"vw_initializeWithCopy", "vw_assignWithCopy"}
        /\ out.w.calls[i].b = Ptr(args.src + PtrSize)

\* The old value of dest was destroyed as its own type says: by a witness if
\* it is inline, by one swift_release of its box otherwise.
DestRetiredThroughItsType ==
    IF isValueInline(OldDestType) THEN WitnessCalledOnDest
    ELSE CalledOnceOn(out.w, "swift_release", OldDestWord) /\ ~WitnessCalledOnDest

\* The value of src was copied as its own type says: by a witness if it is
\* inline, by copying the box pointer and one swift_retain of it otherwise.
SrcCopiedThroughItsType ==
    IF isValueInline(OldSrcType) THEN WitnessCalledOnSrc
    ELSE /\ CalledOnceOn(out.w, "swift_retain", OldSrcWord)
         /\ Load(mem, args.dest + PtrSize, PtrSize) = OldSrcWord
         /\ ~WitnessCalledOnSrc

\* C33: existentialAssignWithCopy retires the old contents of dest according
\* to the type recorded in the container of dest itself: also when dest and
\* src hold different dynamic types (one inline, the other boxed) the old
\* value of dest is destroyed through the type of dest (its witness if
\* inline, one swift_release of its box otherwise) and the value of src is
\* copied through the type of src.
C33_ExistentialDestRetiredByOwnType ==
    (pc = "done" /\ ghost.kind = Kind_Existential /\ args.src # args.dest)
    => DestRetiredThroughItsType /\ SrcCopiedThroughItsType

---------------------------------------------------------------------------
(* swift_resolve_resilientAccessors write by write, next to a reading driver *)

\* The kinds whose first operand is a relative offset or, once resolved, an
\* absolute pointer.
PointerOperandKinds ==
    UnresolvedKinds \cup {Kind_Metatype, Kind_SinglePayloadEnumFNResolved,
                          Kind_MultiPayloadEnumFNResolved}

\* The drivers whose loop reads the layout string while the pass rewrites it.
PublishEntries == {"destroy", "initWithCopy", "initWithTake", "assignWithCopy"}

\* The pointer the pass writes for the instruction at pos.
ResolvedPointer(ls, pos) ==
    IF TagKind(readBytes(ls, pos, 8)) = Kind_Resilient
    THEN getResilientTypeMetadataValue(readRelativeFunctionPointer(ls, pos + 8))
    ELSE readRelativeFunctionPointer(ls, pos + 8)

InitPublish ==
    \E L \in ResolvableLayouts :
    \E entry \in PublishEntries :
        /\ layoutStr = L.ls
        /\ meta = [size |-> L.size, isBitwiseTakable |-> FALSE, isValueInline |-> TRUE]
        /\ mem = Storage(Uninitialized(L.size).bytes, Uninitialized(L.size).bytes)
        /\ rc = [o \in Objects |-> 0]
        /\ args = [entry |-> entry, resolver |-> 0, driver |-> layoutStringHeaderSize]
        /\ pc = [resolver |-> "tag", driver |-> "tag"]
        /\ out = [pointer |-> Null, advance |-> 0, tag |-> Kind_End, seen |-> <<>>,
                  fault |-> "none"]
        /\ ghost = [layout |-> L.name, ls0 |-> L.ls]

\* Where the reader of the pass stands in the layout string.
ResolverPos == layoutStringHeaderSize + args.resolver
ResolverTag == TagKind(readBytes(layoutStr, ResolverPos, 8))

\* The operands the pass reads of the instruction at its reader are inside
\* the layout string.
ResolverOperandsInBounds ==
    /\ ResolverPos + 8 <= Len(layoutStr)
    /\ ResolverPos + 8 + (CASE ResolverTag \in {Kind_Resilient, Kind_SinglePayloadEnumFN} -> 8
                            [] ResolverTag = Kind_SinglePayloadEnumGeneric -> 44
                            [] IsMultiPayloadEnum(ResolverTag) -> 24
                            [] OTHER -> 0) <= Len(layoutStr)

\* case RefCountingKind::End: return;  (or the read ran off the string)
ResolverReturn ==
    /\ pc.resolver = "tag"
    /\ ~ResolverOperandsInBounds \/ ResolverTag = Kind_End
    /\ pc' = [pc EXCEPT !.resolver = "done"]
    /\ out' = [out EXCEPT !.fault = IF ResolverOperandsInBounds THEN @ ELSE "out-of-bounds"]
    /\ UNCHANGED <<layoutStr, meta, mem, rc, args, ghost>>

\* The cases that rewrite nothing: the reader skips the instruction.
ResolverSkip ==
    /\ pc.resolver = "tag"
    /\ ResolverOperandsInBounds
    /\ ResolverTag \notin UnresolvedKinds \cup {Kind_End}
    /\ args' = [args EXCEPT !.resolver = @ + 8 + ResolverAdvance(layoutStr, ResolverPos)]
    /\ UNCHANGED <<layoutStr, meta, mem, rc, pc, out, ghost>>

\* writer.writeBytes(tagAndOffset): the kind of the instruction becomes the
\* resolved one; the pointer is computed and not yet written.
ResolverWriteTag ==
    /\ pc.resolver = "tag"
    /\ ResolverOperandsInBounds
    /\ ResolverTag \in UnresolvedKinds
    /\ layoutStr' = writeBytes([ls |-> layoutStr, fault |-> "none"], ResolverPos,
                               [i \in 1..8 |-> IF i = 8 THEN ResolvedKind(ResolverTag)
                                               ELSE readBytes(layoutStr, ResolverPos, 8)[i]]).ls
    /\ out' = [out EXCEPT !.pointer = ResolvedPointer(layoutStr, ResolverPos),
                          !.advance = ResolverAdvance(layoutStr, ResolverPos),
                          !.tag = ResolverTag]
    /\ pc' = [pc EXCEPT !.resolver = "operand"]
    /\ UNCHANGED <<meta, mem, rc, args, ghost>>

\* writer.writeBytes(type) / writer.writeBytes(getEnumTag), then the rest of
\* the case: for MultiPayloadEnumFN the passes over the payload cases; the
\* reader moves to the next instruction.
ResolverWritePointer ==
    /\ pc.resolver = "operand"
    /\ \E written \in {writeBytes([ls |-> layoutStr, fault |-> "none"], ResolverPos + 8,
                                   out.pointer)} :
       \E numCases \in {N(readBytes(layoutStr, ResolverPos + 16, 8))} :
       \E cases \in {layoutStringHeaderSize + args.resolver + 40 + (numCases * PtrSize)} :
           layoutStr' = IF out.tag = Kind_MultiPayloadEnumFN
                        THEN ResolveCases(written, cases, cases, ResolverPos + 40,
                                          Metadata, 0, numCases).ls
                        ELSE written.ls
    /\ args' = [args EXCEPT !.resolver = @ + 8 + out.advance]
    /\ pc' = [pc EXCEPT !.resolver = "tag"]
    /\ UNCHANGED <<meta, mem, rc, out, ghost>>

\* The loop of a driver reads the tag word of the next instruction:
\* End returns, a kind with a pointer operand goes to its handler, the
\* instructions of the other kinds are passed over.
DriverReadTag ==
    /\ pc.driver = "tag"
    /\ LET kind == TagKind(readBytes(layoutStr, args.driver, 8))
       IN  /\ pc' = [pc EXCEPT !.driver = IF kind = Kind_End THEN "done"
                                          ELSE IF kind \in PointerOperandKinds THEN "operand"
                                          ELSE "tag"]
           /\ out' = [out EXCEPT !.seen = IF kind \in PointerOperandKinds
                                          THEN Append(@, [pos |-> args.driver, kind |-> kind,
                                                          operand |-> <<>>])
                                          ELSE @]
           /\ args' = [args EXCEPT !.driver = IF kind \in PointerOperandKinds \cup {Kind_End}
                                              THEN @
                                              ELSE @ + 8 + OperandBytes(layoutStr, @)]
    /\ UNCHANGED <<layoutStr, meta, mem, rc, ghost>>

\* The handler reads its first operand, the pointer or relative offset, and
\* the instruction is passed over.
DriverReadOperand ==
    /\ pc.driver = "operand"
    /\ out' = [out EXCEPT !.seen[Len(out.seen)].operand = readBytes(layoutStr, args.driver + 8, 8)]
    /\ args' = [args EXCEPT !.driver = @ + 8 + OperandBytes(layoutStr, @)]
    /\ pc' = [pc EXCEPT !.driver = "tag"]
    /\ UNCHANGED <<layoutStr, meta, mem, rc, ghost>>

NextPublish ==
    \/ ResolverReturn
    \/ ResolverSkip
    \/ ResolverWriteTag
    \/ ResolverWritePointer
    \/ DriverReadTag
    \/ DriverReadOperand

SpecPublish == InitPublish /\ [][NextPublish]_vars

\* The pointer the pass is to leave in the instruction at pos of the layout
\* string it started from.
PublishedPointer(pos) ==
    IF TagKind(readBytes(ghost.ls0, pos, 8)) \in UnresolvedKinds
    THEN ResolvedPointer(ghost.ls0, pos)
    ELSE readBytes(ghost.ls0, pos + 8, 8)

\* C34: a driver that runs while swift_resolve_resilientAccessors rewrites
\* the same layout string and reads a tag word of a resolved kind (Metatype,
\* SinglePayloadEnumFNResolved, MultiPayloadEnumFNResolved) reads next, as the
\* operand, the resolved absolute pointer, never the relative offset that was
\* there before.
C34_ResolvedTagHasResolvedOperand ==
    \A i \in 1..Len(out.seen) :
        (out.seen[i].kind \notin UnresolvedKinds /\ out.seen[i].operand # <<>>)
        => out.seen[i].operand = PublishedPointer(out.seen[i].pos)

\* The tag of the multi-payload enum value at the enum's start in the
\* buffer at base, in the memory m.
MultiPayloadTagIn(m, base) ==
    CASE TagKind(EnumInstruction) = Kind_MultiPayloadEnumGeneric ->
            readTagBytes(m,
                         base + AtEnumInstruction.addrOffset + FirstEnumSize
                           - N(peekBytes(layoutStr, AtEnumInstruction.reader, 0, 8)),
                         N(peekBytes(layoutStr, AtEnumInstruction.reader, 0, 8)))
      [] TagKind(EnumInstruction) = Kind_MultiPayloadEnumFN ->
            Cast(getEnumTagValue(m, readRelativeFunctionPointer(layoutStr, AtEnumInstruction.reader),
                                 base + AtEnumInstruction.addrOffset), 8)
      [] OTHER ->
            Cast(getEnumTagValue(m, readBytes(layoutStr, AtEnumInstruction.reader, 8),
                                 base + AtEnumInstruction.addrOffset), 8)

\* dest and src both hold a payload case of the multi-payload enum that is
\* the first instruction.
BothPayloadCases ==
    /\ IsMultiPayloadEnum(TagKind(EnumInstruction))
    /\ ghost.destLive
    /\ MultiPayloadTag(DestBase) # Unreachable /\ MultiPayloadTag(SrcBase) # Unreachable
    /\ LtW(MultiPayloadTag(DestBase), FirstEnumNumPayloads)
    /\ LtW(MultiPayloadTag(SrcBase), FirstEnumNumPayloads)

\* The destroy of the payload of dest by the sub-stream of dest's tag, then
\* the copy of the payload of src by the sub-stream of src's tag, both from
\* the enum's start.
DestroyThenCopyOfPayloads ==
    RunInitWithCopy(Metadata,
                    Resume(RunDestroy(Metadata, AtPayload(N(MultiPayloadTag(DestBase))),
                                      DestBase),
                           AtPayload(N(MultiPayloadTag(SrcBase)))),
                    DestBase, SrcBase)

\* The calls that give up a reference of the old value, those that take a
\* reference for the new one, and the calls of both sorts in a run, in order.
GivesUp(c) == IsRelease(c) \/ c.fn = "vw_destroy"
Takes(c) == IsRetain(c) \/ c.fn \in {"vw_initializeWithCopy"}
OwnershipCalls(w) ==
    LET Owns(c) == GivesUp(c) \/ Takes(c)
    IN  SelectSeq(w.calls, Owns)

\* No call of the run that takes a reference comes before one that gives
\* one up.
ReleasesPrecedeRetains(w) ==
    \A i, j \in 1..Len(w.calls) :
        (Takes(w.calls[i]) /\ GivesUp(w.calls[j])) => j < i

\* The run w of the assign handler destroyed and copied by the tags, in
\* this order, and left in dest the tag of src.
AssignedPayloadByTags(w) ==
    /\ SameReferenceEffects(w, DestroyThenCopyOfPayloads)
    /\ OwnershipCalls(w) = OwnershipCalls(DestroyThenCopyOfPayloads)
    /\ ReleasesPrecedeRetains(w)
    /\ \E i \in 1..Len(w.calls) : GivesUp(w.calls[i])
    /\ \E i \in 1..Len(w.calls) : Takes(w.calls[i])
    /\ MultiPayloadTagIn(w.mem, DestBase) = MultiPayloadTag(SrcBase)

\* C35: assignWithCopy of a multi-payload enum whose tags in src and in dest
\* both name payloads (not necessarily the same one) destroys the old payload
\* of dest through the sub-stream of dest's tag, then copy-initializes the
\* payload of src through the sub-stream of src's tag, from the same enum
\* start; every release on the old payload of dest precedes every retain on
\* the payload of src, and afterwards the tag of dest is that of src.
C35_MultiPayloadAssignDestroysThenCopies ==
    BothPayloadCases
    => AssignedPayloadByTags(assignWithCopyTable(TagKind(EnumInstruction), Metadata,
                                                 AtEnumInstruction, DestBase, SrcBase))

\* An assignWithCopy over a multi-payload enum returned: dest held the second
\* payload case, src the first one, and dest now has the tag of src.
C35_Witness ==
    /\ Returned("assignWithCopy")
    /\ BothPayloadCases
    /\ MultiPayloadTag(DestBase) = Word(1)
    /\ MultiPayloadTag(SrcBase) = Word(0)
    /\ MultiPayloadTagIn(mem, DestBase) = Word(0)
    /\ out.fault = "none"
    /\ ReleasesPrecedeRetains(out)
    /\ \E i \in 1..Len(out.calls) : Takes(out.calls[i])
    /\ \E i \in 1..Len(out.calls) : GivesUp(out.calls[i])

---------------------------------------------------------------------------
(* Values of several reference fields: the order of the collaborator calls *)

\* struct { Unknown; enum { case a(NativeStrong); case b(Bridge); case c };
\* Error }: a multi-payload enum between two reference fields, every field of
\* another kind.
RefEnumRefLayout ==
    [name |-> <<"RefEnumRef">>,
     ls |-> LayoutHeader \o Tag(Kind_Unknown, 0)
                \o Tag(Kind_MultiPayloadEnumGeneric, 0)
                \o Word(1) \o Word(2) \o Word(32) \o Word(9)
                \o Word(0) \o Word(16)
                \o Tag(Kind_NativeStrong, 0) \o Tag(Kind_End, 0)
                \o Tag(Kind_Bridge, 0) \o Tag(Kind_End, 0)
                \o Tag(Kind_Error, 7)
                \o Tag(Kind_End, 0),
     size |-> 32,
     vals |-> {Value(p.bytes \o e.bytes \o Fill(7, 26) \o q.bytes,
                     p.refs \o e.refs \o q.refs) :
                  p \in PointerValues(Kind_Unknown),
                  e \in {Value(Ptr(ObjAddr(0)) \o <<0>>, <<ObjAddr(0)>>),
                         Value(Ptr(ObjAddr(1)) \o <<1>>, <<ObjAddr(1)>>),
                         Value(Word(0) \o <<2>>, <<>>)},
                  q \in {Value(Null, <<>>), Value(Ptr(ObjAddr(1)), <<ObjAddr(1)>>)}}]

OrderLayouts == {TwoRefsLayout, EnumThenRefLayout, RefEnumRefLayout}

InitOrder ==
    \E L \in OrderLayouts :
    \E sv \in L.vals :
    \E dv \in L.vals \cup {Uninitialized(L.size)} :
    \E takable \in BOOLEAN :
        /\ layoutStr = L.ls
        /\ meta = [size |-> L.size, isBitwiseTakable |-> takable, isValueInline |-> TRUE]
        /\ mem = Storage(dv.bytes, sv.bytes)
        /\ rc = [o \in Objects |-> Count(o, dv.refs) + Count(o, sv.refs)]
        /\ args = [entry |-> "none", dest |-> 0, src |-> 0, tag |-> 0]
        /\ ghost = [layout |-> L.name,
                    destLive |-> dv.live,
                    destRefs |-> [o \in Objects |-> Count(o, dv.refs)],
                    srcRefs |-> [o \in Objects |-> Count(o, sv.refs)],
                    mem0 |-> Storage(dv.bytes, sv.bytes),
                    rc0 |-> [o \in Objects |-> Count(o, dv.refs) + Count(o, sv.refs)]]
        /\ pc = "ready"
        /\ out = NoOutcome

SpecOrder == InitOrder /\ [][Next]_vars

\* The kind of the instruction whose handlers call the collaborator fn.
KindOfCall(fn) ==
    CASE fn \in {"swift_release", "swift_retain"} -> Kind_NativeStrong
      [] fn \in {"swift_unknownObjectRelease", "swift_unknownObjectRetain"} -> Kind_Unknown
      [] fn \in {"swift_errorRelease", "swift_errorRetain"} -> Kind_Error
      [] fn \in {"swift_bridgeObjectRelease", "swift_bridgeObjectRetain"} -> Kind_Bridge
      [] OTHER -> Kind_End

\* Where the instructions of the stream that starts at pos are, those of
\* the payload sub-streams of multi-payload enums not among them.
RECURSIVE InstructionsOfLoop(_, _)
InstructionsOfLoop(ls, pos) ==
    IF pos + 8 > Len(ls) \/ TagKind(readBytes(ls, pos, 8)) = Kind_End THEN {}
    ELSE {pos} \cup InstructionsOfLoop(ls, pos + 8 + OperandBytes(ls, pos))

\* The kinds of the instruction at pos and, for a multi-payload enum, of the
\* instructions of its payloads.
KindsOfInstruction(ls, pos) ==
    {TagKind(readBytes(ls, pos, 8))}
    \cup (IF IsMultiPayloadEnum(TagKind(readBytes(ls, pos, 8)))
          THEN {TagKind(readBytes(ls, p, 8)) :
                   p \in InstructionsOfPayloads(ls, pos, N(MultiFnHeader(ls, pos + 8).numPayloads))}
          ELSE {})

\* The instruction of the loop for which the call c was made (every field of
\* the layouts here is of another kind); 0 if there is none.
InstructionOfCall(c) ==
    LET owners == {pos \in InstructionsOfLoop(layoutStr, layoutStringHeaderSize) :
                      KindOfCall(c.fn) \in KindsOfInstruction(layoutStr, pos)}
    IN  IF owners = {} THEN 0 ELSE CHOOSE pos \in owners : TRUE

\* The calls are in the order of the instructions they were made for.
InTraversalOrder(calls) ==
    /\ \A i \in 1..Len(calls) : InstructionOfCall(calls[i]) # 0
    /\ \A i, j \in 1..Len(calls) :
          i < j => InstructionOfCall(calls[i]) <= InstructionOfCall(calls[j])

\* The calls of the traversal that destroys dest, and those of the traversal
\* that follows it in swift_generic_assignWithTake.
CallsOfDestroy(calls) == SelectSeq(calls, IsRelease)
CallsAfterDestroy(calls) ==
    LET Other(c) == ~IsRelease(c)
    IN  SelectSeq(calls, Other)

\* C36: within one driver call the collaborator calls are issued in the
\* order in which the traversal meets their instructions: the calls for an
\* instruction precede those for a later one, and the calls for the payload
\* of a nested multi-payload enum come after those of the instructions
\* before the enum and before those of the instructions after it.
\* (swift_generic_assignWithTake traverses twice, to destroy and to take.)
C36_CallsInTraversalOrder ==
    pc = "done"
    => IF args.entry = "assignWithTake"
       THEN /\ out.calls = CallsOfDestroy(out.calls) \o CallsAfterDestroy(out.calls)
            /\ InTraversalOrder(CallsOfDestroy(out.calls))
            /\ InTraversalOrder(CallsAfterDestroy(out.calls))
       ELSE InTraversalOrder(out.calls)

\* A destroy of a value with a reference before the multi-payload enum, one
\* in its payload and one after it returned: three calls, one per
\* instruction, in the order of the instructions.
C36_Witness ==
    /\ Returned("destroy")
    /\ ghost.layout = <<"RefEnumRef">>
    /\ out.fault = "none"
    /\ Len(out.calls) = 3
    /\ InstructionOfCall(out.calls[1]) < InstructionOfCall(out.calls[2])
    /\ InstructionOfCall(out.calls[2]) < InstructionOfCall(out.calls[3])
    /\ IsMultiPayloadEnum(TagKind(readBytes(layoutStr, InstructionOfCall(out.calls[2]), 8)))

---------------------------------------------------------------------------
(* One instruction of every kind of the dispatch tables                    *)

\* struct { Any }: an existential container (value buffer, then the type).
ExistentialLayout ==
    [name |-> <<"Existential">>,
     ls |-> LayoutHeader \o Tag(Kind_Existential, 0) \o Tag(Kind_End, PtrSize),
     size |-> PtrSize * (NumWords_ValueBuffer + 1),
     vals |-> ExistentialValues]

\* The layout with its string resolved.
ResolvedLayout(L) == [L EXCEPT !.ls = Resolved(L), !.name = Append(@, "resolved")]

\* A layout for every index of the dispatch tables: the first instruction of
\* each is of another kind.
KindLayouts ==
    {OneRefLayout(k) : k \in (Kind_Error..Kind_ObjC) \cup {Kind_Custom, Kind_Generic}}
    \cup {ExistentialLayout, SinglePayloadXILayout, SinglePayloadExtraTagLayout,
          SinglePayloadBothLayout, MultiPayloadLayout, GenericThenOptionalLayout}
    \cup {ResilientLayout, SingleFnLayout, MultiFnLayout}
    \cup {ResolvedLayout(L) : L \in {ResilientLayout, SingleFnLayout, MultiFnLayout}}

InitKinds ==
    \E L \in KindLayouts :
    \E sv \in L.vals :
    \E dv \in L.vals \cup {Uninitialized(L.size)} :
        /\ layoutStr = L.ls
        /\ meta = [size |-> L.size, isBitwiseTakable |-> FALSE, isValueInline |-> TRUE]
        /\ mem = Storage(dv.bytes, sv.bytes)
        /\ rc = [o \in Objects |-> Count(o, dv.refs) + Count(o, sv.refs)]
        /\ args = [entry |-> "none", dest |-> 0, src |-> 0, tag |-> 0]
        /\ ghost = [layout |-> L.name,
                    destLive |-> dv.live,
                    destRefs |-> [o \in Objects |-> Count(o, dv.refs)],
                    srcRefs |-> [o \in Objects |-> Count(o, sv.refs)],
                    mem0 |-> Storage(dv.bytes, sv.bytes),
                    rc0 |-> [o \in Objects |-> Count(o, dv.refs) + Count(o, sv.refs)]]
        /\ pc = "ready"
        /\ out = NoOutcome

SpecKinds == InitKinds /\ [][Next]_vars

\* The kinds of the instructions of the layout string, nested ones too.
KindsOfLayoutString ==
    {TagKind(readBytes(layoutStr, pos, 8)) :
        pos \in InstructionsOfStream(layoutStr, layoutStringHeaderSize)}

\* The indices at which destroyTableBranchless, initWithCopyTable and
\* assignWithCopyTable hold a null pointer.
NullSlots ==
    {Kind_Custom, Kind_Generic}
    \cup (IF SWIFT_OBJC_INTEROP THEN {} ELSE {Kind_Block, Kind_ObjC})

\* The driver copied the word of the field bit by bit and called nothing.
OneWordBitCopy ==
    /\ out.fault = "none"
    /\ out.calls = <<>>
    /\ Load(mem, DestBase + TagOffset(EnumInstruction), PtrSize) = FirstFieldWord(SrcBase)
    /\ rc = ghost.rc0

CursorsAfter(w) == <<w.reader, w.addrOffset>>

\* One pass of the loop of each of the four drivers over the first
\* instruction, the value of src being the value each of them works on.
FirstPassCursors ==
    <<CursorsAfter(Iteration("destroy", Metadata, World(layoutStringHeaderSize, ghost.mem0, ghost.rc0), SrcBase, SrcBase)),
      CursorsAfter(Iteration("initWithCopy", Metadata, World(layoutStringHeaderSize, ghost.mem0, ghost.rc0), DestBase, SrcBase)),
      CursorsAfter(Iteration("initWithTake", Metadata, World(layoutStringHeaderSize, ghost.mem0, ghost.rc0), DestBase, SrcBase)),
      CursorsAfter(Iteration("assignWithCopy", Metadata, World(layoutStringHeaderSize, ghost.mem0, ghost.rc0), SrcBase, SrcBase))>>

\* C38: for every kind of instruction and every value the four drivers move
\* the cursors alike: destroy, initWithCopy, initWithTake (also where it
\* copies one word for a kind that its table lacks, as NativeWeak and
\* UnknownUnowned) and assignWithCopy advance addrOffset by the same amount
\* and consume the same bytes of the layout string for that instruction, so
\* they hold the same pair at the boundary after it.
C38_DriversMoveCursorsAlike ==
    TagKind(EnumInstruction) \notin NullSlots
    => \E c \in {FirstPassCursors} : c[1] = c[2] /\ c[2] = c[3] /\ c[3] = c[4]

(***************************************************************************)
(* The loops pass by pass: do they end                                     *)

\* The layouts the drivers traverse pass by pass: flat ones, single-payload
\* enums of every tag encoding, a multi-payload enum between two references.
TerminateLayouts ==
    {TwoRefsLayout, SinglePayloadXILayout, SinglePayloadBothLayout, EnumThenRefLayout,
     MultiPayloadLayout, RefEnumRefLayout}

TerminateEntries == {"destroy", "initWithCopy", "initWithTake", "assignWithCopy"}

\* One call runs: either swift_resolve_resilientAccessors on a layout string
\* nobody else reads, or one driver on a value of the layout.
InitTerminate ==
    \/ \E L \in ResolvableLayouts :
        /\ layoutStr = L.ls
        /\ meta = [size |-> L.size, isBitwiseTakable |-> FALSE, isValueInline |-> TRUE]
        /\ mem = Storage(Uninitialized(L.size).bytes, Uninitialized(L.size).bytes)
        /\ rc = [o \in Objects |-> 0]
        /\ args = [entry |-> "resolve", resolver |-> 0, driver |-> layoutStringHeaderSize,
                   dest |-> DestBase, src |-> SrcBase]
        /\ pc = [resolver |-> "tag", driver |-> "done"]
        /\ out = [pointer |-> Null, advance |-> 0, tag |-> Kind_End, seen |-> <<>>,
                  fault |-> "none", reader |-> layoutStringHeaderSize, addrOffset |-> 0,
                  driverFault |-> "none", passes |-> 0]
        /\ ghost = [layout |-> L.name, ls0 |-> L.ls]
    \/ \E L \in TerminateLayouts :
       \E entry \in TerminateEntries :
       \E sv \in L.vals :
       \E dv \in IF entry \in {"destroy", "assignWithCopy"} THEN L.vals
                 ELSE {Uninitialized(L.size)} :
        /\ layoutStr = L.ls
        /\ meta = [size |-> L.size, isBitwiseTakable |-> FALSE, isValueInline |-> TRUE]
        /\ mem = Storage(dv.bytes, sv.bytes)
        /\ rc = [o \in Objects |-> Count(o, dv.refs) + Count(o, sv.refs)]
        /\ args = [entry |-> entry, resolver |-> 0, driver |-> layoutStringHeaderSize,
                   dest |-> DestBase, src |-> SrcBase]
        /\ pc = [resolver |-> "done", driver |-> "running"]
        /\ out = [pointer |-> Null, advance |-> 0, tag |-> Kind_End, seen |-> <<>>,
                  fault |-> "none", reader |-> layoutStringHeaderSize, addrOffset |-> 0,
                  driverFault |-> "none", passes |-> 0]
        /\ ghost = [layout |-> L.name, ls0 |-> L.ls]

\* The world the next pass of the driver runs in.
DriverWorld ==
    [World(out.reader, mem, rc)
        EXCEPT !.addrOffset = out.addrOffset, !.fault = out.driverFault]

\* The driver has run the pass that leaves it in w0.
DriverAdvance(w0) ==
    \E w \in {w0} :
    /\ mem' = w.mem
    /\ rc' = w.rc
    /\ out' = [out EXCEPT !.reader = w.reader, !.addrOffset = w.addrOffset,
                          !.driverFault = w.fault, !.passes = @ + 1]

\* while (true) { ... handler(metadata, reader, addrOffset, addr) }
DriverPass ==
    /\ pc.driver = "running"
    /\ ~LoopEnds(Metadata, DriverWorld)
    /\ DriverAdvance(RunIteration(args.entry, Metadata, DriverWorld, args.dest, args.src))
    /\ UNCHANGED <<layoutStr, meta, args, pc, ghost>>

\* if (tag == 0) return;
DriverReturn ==
    /\ pc.driver = "running"
    /\ LoopEnds(Metadata, DriverWorld)
    /\ DriverAdvance(RunIteration(args.entry, Metadata, DriverWorld, args.dest, args.src))
    /\ pc' = [pc EXCEPT !.driver = "done"]
    /\ UNCHANGED <<layoutStr, meta, args, ghost>>

NextTerminate ==
    \/ ResolverReturn
    \/ ResolverSkip
    \/ ResolverWriteTag
    \/ ResolverWritePointer
    \/ DriverPass
    \/ DriverReturn

\* A call that is running keeps running: its thread executes the next
\* statement of the loop.
SpecTerminate == InitTerminate /\ [][NextTerminate]_vars /\ WF_vars(NextTerminate)

\* Where the End instruction of the stream that starts at pos is, payload
\* streams skipped with their instruction; 0 when there is none.
RECURSIVE FirstEnd(_, _)
FirstEnd(ls, pos) ==
    IF pos + 8 > Len(ls) THEN 0
    ELSE IF TagKind(readBytes(ls, pos, 8)) = Kind_End THEN pos
    ELSE FirstEnd(ls, pos + 8 + OperandBytes(ls, pos))

\* Both loops have returned.
LoopsReturned == pc.resolver = "done" /\ pc.driver = "done"

\* The loop that ran read the first top-level End of its layout string as
\* its last instruction.
StoppedAtFirstEnd ==
    IF args.entry = "resolve"
    THEN out.fault = "none" /\ ResolverPos = FirstEnd(ghost.ls0, layoutStringHeaderSize)
    ELSE out.driverFault = "none"
         /\ out.reader = FirstEnd(layoutStr, layoutStringHeaderSize) + 8

\* C39: on a finite layout string with an End at every nesting level every
\* driver and swift_resolve_resilientAccessors return, the loop having
\* stopped at the first top-level End.
C39_LoopsStopAtFirstEnd == <>(LoopsReturned /\ StoppedAtFirstEnd)

(***************************************************************************)
(* readTagBytes on its own                                                 *)

\* The bytes the tag is read from, and the bytes after them.
TagByteValues == {0, 1, 255}
\* The widths a layout string can give as tagBytes of a multi-payload enum.
MaxWidth == 9
\* The patterns of the three bits of byteCountsAndOffset that encode the
\* width of the extra-inhabitant tag.
MaxPattern == 7

InitTagBytes ==
    \E a \in TagByteValues :
    \E b \in TagByteValues :
    \E c \in TagByteValues :
        /\ layoutStr = LayoutHeader \o Tag(Kind_End, 0)
        /\ meta = [size |-> 10, isBitwiseTakable |-> TRUE, isValueInline |-> TRUE]
        /\ mem = Storage(<<a, b, 2, c, 4, 5, 6, 7, 128, 9>>, <<>>)
        /\ rc = [o \in Objects |-> 0]
        /\ args = [entry |-> "none", addr |-> 0, byteCount |-> 0, pattern |-> 0]
        /\ pc = "ready"
        /\ out = [result |-> Unreachable, fault |-> "none"]
        /\ ghost = [layout |-> <<"TagBytes">>]

\* readTagBytes has run with the result r.
TagBytesRead(entry, addr, byteCount, pattern, r) ==
    /\ pc' = "done"
    /\ args' = [entry |-> entry, addr |-> addr, byteCount |-> byteCount, pattern |-> pattern]
    /\ out' = [result |-> r, fault |-> IF r = Unreachable THEN "unreachable" ELSE "none"]
    /\ UNCHANGED <<layoutStr, meta, mem, rc, ghost>>

\* readTagBytes(addr + addrOffset + ..., tagBytes) with tagBytes an operand
\* of the instruction.
CallReadTagBytes ==
    /\ pc = "ready"
    /\ \E addr \in {DestBase, DestBase + 1} :
       \E tagBytes \in 0..MaxWidth :
          TagBytesRead("tagBytes", addr, tagBytes, 0, readTagBytes(mem, addr, tagBytes))

\* auto xiTagBytes = 1 << (xiTagBytesPattern - 1);
\* readTagBytes(addr + addrOffset + xiTagBytesOffset, xiTagBytes)
CallReadTagBytesOfPattern ==
    /\ pc = "ready"
    /\ \E addr \in {DestBase, DestBase + 1} :
       \E pattern \in 1..MaxPattern :
          TagBytesRead("pattern", addr, ShiftPattern(pattern), pattern,
                       readTagBytes(mem, addr, ShiftPattern(pattern)))

NextTagBytes ==
    \/ CallReadTagBytes
    \/ CallReadTagBytesOfPattern

SpecTagBytes == InitTagBytes /\ [][NextTagBytes]_vars

\* The byteCount bytes at addr, the lowest first, and zero bytes above them
\* up to 64 bits.
ZeroExtended(addr, byteCount) ==
    [i \in 1..8 |-> IF i <= byteCount THEN mem[addr + (i - 1)] ELSE 0]

SupportedWidths == {1, 2, 4, 8}

\* C40: readTagBytes returns the byteCount bytes at addr zero-extended to 64
\* bits when byteCount is 1, 2, 4 or 8; for every other byteCount (16, 32 and
\* 64 of the patterns 5, 6 and 7, a tagBytes of 0 or 3 among them) it reaches
\* swift_unreachable and returns no value.
C40_ReadTagBytesWidths ==
    pc = "done" =>
        IF args.byteCount \in SupportedWidths
        THEN out.fault = "none" /\ out.result = ZeroExtended(args.addr, args.byteCount)
        ELSE out.fault = "unreachable" /\ out.result = Unreachable

\* A pattern of 5, 6 or 7 decoded to a width of 16, 32 or 64, and the read
\* reached swift_unreachable.
C40_Witness ==
    /\ pc = "done"
    /\ args.pattern \in {5, 6, 7}
    /\ args.byteCount \in {16, 32, 64}
    /\ out.fault = "unreachable"
====
